---- MODULE Spec2Model ----
(***************************************************************************)
(* Lamport mutual exclusion and Byzantine oral-messages agreement, as      *)
(* implemented in combined_assignments.py and its per-assignment variants. *)
(*                                                                         *)
(* Part 1 models LamportNode of combined_assignments.py: every node has a  *)
(* main thread (request_cs / enter_cs / release_cs), one XML-RPC server    *)
(* thread that runs receive_request / receive_release one call at a time,  *)
(* and the broadcast threads started by request_cs and release_cs.  The    *)
(* class takes no lock, so the read-modify-write statements on clock and   *)
(* request_queue are split into their read and their write.                *)
(*                                                                         *)
(* Part 2 models run_byzantine_simulation, Part 3 the decide methods of    *)
(* the three Byzantine variants, Part 4 LamportNode of code/node.py with   *)
(* its locks, Part 5 one node of each mutual-exclusion variant called by   *)
(* one thread at a time, Part 6 the message stores of the lieutenants, and *)
(* Part 7 commander.py with the lieutenants of code/lieutenant.py relaying *)
(* its order to each other.                                                *)
(***************************************************************************)
EXTENDS Integers, Sequences, FiniteSets, TLC

\* ------------------------------------------------------------------ bounds

\* LamportNode.total_nodes of the runs whose driver calls request_cs again
\* after each release
TotalNodes == 2

\* LamportNode.total_nodes of the runs of run_lamport_node
RunNodes == 3

\* how many times a driver that re-requests calls request_cs on its node
MaxCycles == 2

\* run_lamport_node calls request_cs once on its node
DriverCalls == 1

\* how many RPCs the servers of a run of run_lamport_node take, over all nodes
RunCalls == 5

\* how many RPCs of a mutual-exclusion run may raise in the caller
MaxLost == 1

\* how many RPCs the servers of a run with a re-requesting driver take, over
\* all nodes
MaxCalls == 4

\* the largest total_nodes run_byzantine_simulation is called with
MaxByzNodes == 5

\* the largest num_traitors run_byzantine_simulation is called with
MaxTraitors == 1

\* how many receive_message calls of one simulation may raise in the caller
MaxFailed == 2

\* the largest total_nodes of the simulations in which every call is delivered
ValidityNodes == 7

\* ------------------------------------------------------- Part 1: variables

VARIABLES
    state,              \* LamportNode.state
    clock,              \* LamportNode.clock
    request_queue,      \* LamportNode.request_queue, a list of <<timestamp, id>>
    replies_received,   \* LamportNode.replies_received
    request_timestamp,  \* request_cs's local request_timestamp (0: no request yet)
    pc,                 \* where the node's main thread stands
    m_read,             \* what the main thread read and has not yet written back
    hpc,                \* where the node's RPC server thread stands
    hcall,              \* the call the server thread is running
    h_read,             \* what the server thread read and has not yet written back
    threads,            \* the running _broadcast threads
    cycles,             \* request_cs calls made so far, per node
    lost,               \* RPCs that raised in the caller so far
    served,             \* RPCs taken by a server so far
    node_count,         \* LamportNode.total_nodes, the same for every node
    driver_calls,       \* how many times each node's driver calls request_cs
    max_served,         \* how many RPCs the servers take in this run
    req_failed,         \* the calls of _broadcast that raised (lines 103-106)
    queue_at_request,   \* request_queue as request_cs found it (line 110)
    received_ts         \* the largest timestamp of the receive_request calls
                        \* the node has returned from (line 78)

lvars == <<state, clock, request_queue, replies_received, request_timestamp,
           pc, m_read, hpc, hcall, h_read, threads, cycles, lost, served,
           node_count, driver_calls, max_served, req_failed, queue_at_request,
           received_ts>>

\* ------------------------------------------------------- Part 2: variables

VARIABLES
    total_nodes,        \* run_byzantine_simulation's arguments
    num_traitors,
    commander_order,
    traitor_ids,        \* line 305
    messages,           \* ByzantineNode.messages of every node: path_str -> list
    final_decision,     \* ByzantineNode.final_decision of every node
    path_history,       \* line 334
    current_paths,      \* line 337
    loop_i,             \* the i of line 336
    path_idx,           \* the place of `path` in current_paths, from 1
    order_to_send,      \* lines 342-347
    lt_idx,             \* the place of lt_id in execute_om's lieutenants, from 1
    decide_idx,         \* the node the loop of line 362 is at
    failed,             \* receive_message calls that raised so far
    bpc                 \* where run_byzantine_simulation stands

bvars == <<total_nodes, num_traitors, commander_order, traitor_ids, messages,
           final_decision, path_history, current_paths, loop_i, path_idx,
           order_to_send, lt_idx, decide_idx, failed, bpc>>

\* ------------------------------------------------------- Part 3: variables

VARIABLES
    bn_messages,        \* byzantine_node.py Lieutenant.messages, in insertion order
    bn_final_decision,  \* byzantine_node.py Lieutenant.final_decision
    lt_msgs,            \* code/lieutenant.py Lieutenant.msgs, in insertion order
    lt_decision         \* what code/lieutenant.py Lieutenant.decide returned

dvars == <<bn_messages, bn_final_decision, lt_msgs, lt_decision>>

\* ------------------------------------------------------- Part 4: variables

VARIABLES
    np_clock,           \* code/node.py LamportNode.clock
    np_queue,           \* code/node.py LamportNode.request_queue
    np_ack_count,       \* code/node.py LamportNode.ack_count
    np_ts,              \* request_critical_section's local ts
    np_ok,              \* request_critical_section's local ok
    np_pc,              \* where request_critical_section stands
    np_peer,            \* the nid the loop over self.nodes is at
    np_hpc,             \* where the node's RPC server thread stands
    np_hcall,           \* the call the server thread is running
    np_cycles,          \* request_critical_section calls made so far
    np_lost             \* calls that raised in the caller so far

nvars == <<np_clock, np_queue, np_ack_count, np_ts, np_ok, np_pc, np_peer,
           np_hpc, np_hcall, np_cycles, np_lost>>

\* ------------------------------------------------------- Part 5: variables

VARIABLES
    op_node,            \* one LamportNode: its clock, queue, state and replies
    op_last,            \* the last call made on it, with the node as it was
    op_calls            \* calls made on it so far

ovars == <<op_node, op_last, op_calls>>

\* ------------------------------------------------------- Part 6: variables

VARIABLES
    st_traitor,         \* Lieutenant.is_traitor / Lieutenant.byzantine
    st_last,            \* the last call a lieutenant's server ran
    st_sent,            \* the calls the handler's forwarding threads make
    st_calls            \* calls run so far

svars == <<st_traitor, st_last, st_sent, st_calls>>

\* ------------------------------------------------------- Part 7: variables

VARIABLES
    rl_f,               \* cfg['f'] of config.json
    rl_byzantine,       \* Lieutenant.byzantine of every lieutenant
    rl_order,           \* args.order of commander.py
    rl_cmd,             \* the lieutenant commander.py's loop is at
    rl_msgs,            \* Lieutenant.msgs of every lieutenant
    rl_threads,         \* the _om_recursive and _forward_message threads running
    rl_sent,            \* every receive_message call made so far
    rl_lost             \* calls that raised in the caller so far

rvars == <<rl_f, rl_byzantine, rl_order, rl_cmd, rl_msgs, rl_threads, rl_sent,
           rl_lost>>

xvars == <<nvars, ovars, svars, rvars>>

\* what a run never changes
lparams == <<node_count, driver_calls, max_served>>

vars == <<lvars, bvars, dvars, xvars>>

Nodes == 0 .. (node_count - 1)

NoCall == [src |-> -1, method |-> "none", ts |-> 0, idx |-> -1, cyc |-> 0]

NoRead == [clock |-> 0, queue |-> <<>>]

\* ------------------------------------------------------- Part 1: functions

Max(a, b) == IF a >= b THEN a ELSE b

\* Python's tuple order on (timestamp, id)
TupleLeq(a, b) == a[1] < b[1] \/ (a[1] = b[1] /\ a[2] <= b[2])

RECURSIVE InsertSorted(_, _)
InsertSorted(q, e) ==
    IF q = <<>> THEN <<e>>
    ELSE IF TupleLeq(q[Len(q)], e) THEN Append(q, e)
    ELSE Append(InsertSorted(SubSeq(q, 1, Len(q) - 1), e), q[Len(q)])

RECURSIVE SortedList(_)
SortedList(q) ==
    IF q = <<>> THEN <<>>
    ELSE InsertSorted(SortedList(SubSeq(q, 1, Len(q) - 1)), q[Len(q)])

\* list.sort() on request_queue
SortQueue(q) == SortedList(q)

\* [req for req in self.request_queue if req[1] != sender_id]
RemoveSender(q, id) == SelectSeq(q, LAMBDA req : req[2] # id)

\* _tick_clock: received_clock is 0 for None (and 0 itself is falsy)
TickClock(c, received_clock) ==
    IF received_clock # 0 THEN Max(c, received_clock) + 1 ELSE c + 1

\* the next i of `for i in range(self.total_nodes)` that is not self.id
NextTarget(src, from) ==
    IF \E i \in Nodes : i >= from /\ i # src
    THEN CHOOSE i \in Nodes : /\ i >= from /\ i # src
                              /\ \A j \in Nodes : (j >= from /\ j # src) => i <= j
    ELSE node_count

\* a _broadcast thread after its call to t.idx has returned or raised
Advance(ths, t) ==
    LET nxt == NextTarget(t.src, t.idx + 1)
    IN  IF nxt < node_count
        THEN (ths \ {t}) \cup {[t EXCEPT !.idx = nxt]}
        ELSE ths \ {t}

\* threading.Thread(target=self._broadcast, ...).start()
StartThread(ths, n, method, ts, cyc) ==
    LET first == NextTarget(n, 0)
    IN  IF first < node_count
        THEN ths \cup {[src |-> n, method |-> method, ts |-> ts,
                        idx |-> first, cyc |-> cyc]}
        ELSE ths

\* -------------------------------------------------------- Part 1: actions

\* every RPC N nodes make when each calls request_cs k times: a request and a
\* release to each of the N - 1 peers
AllCalls(N, k) == N * k * 2 * (N - 1)

\* N nodes after __init__ (lines 48-60), each driver about to call request_cs
\* k times, the servers taking c calls
LInitWith(N, k, c) ==
    /\ node_count = N
    /\ driver_calls = k
    /\ max_served = c
    /\ served = 0
    /\ state = [n \in Nodes |-> "RELEASED"]
    /\ clock = [n \in Nodes |-> 0]
    /\ request_queue = [n \in Nodes |-> <<>>]
    /\ replies_received = [n \in Nodes |-> {}]
    /\ request_timestamp = [n \in Nodes |-> 0]
    /\ pc = [n \in Nodes |-> "idle"]
    /\ m_read = [n \in Nodes |-> NoRead]
    /\ hpc = [n \in Nodes |-> "idle"]
    /\ hcall = [n \in Nodes |-> NoCall]
    /\ h_read = [n \in Nodes |-> NoRead]
    /\ threads = {}
    /\ cycles = [n \in Nodes |-> 0]
    /\ lost = 0
    /\ req_failed = {}
    /\ queue_at_request = [n \in Nodes |-> <<>>]
    /\ received_ts = [n \in Nodes |-> 0]

\* a driver that calls request_cs again after each release, up to the
\* MaxCalls-th call
LInit == LInitWith(TotalNodes, MaxCycles, MaxCalls)

\* run_lamport_node on every node (lines 158-188), up to the RunCalls-th call
RunInit == LInitWith(RunNodes, DriverCalls, RunCalls)

\* request_cs setting the state of enter_cs
RequestCS_WrongState(n) ==
    /\ pc[n] = "idle"
    /\ state[n] = "RELEASED"
    /\ cycles[n] < driver_calls
    /\ state' = [state EXCEPT ![n] = "HELD"]
    /\ m_read' = [m_read EXCEPT ![n].clock = clock[n]]
    /\ cycles' = [cycles EXCEPT ![n] = @ + 1]
    /\ pc' = [pc EXCEPT ![n] = "tick"]
    /\ queue_at_request' = [queue_at_request EXCEPT ![n] = request_queue[n]]
    /\ UNCHANGED <<clock, request_queue, replies_received, request_timestamp,
                   hpc, hcall, h_read, threads, lost, served, req_failed, received_ts, lparams, bvars, dvars, xvars>>

\* request_cs, lines 110-115: the guard, state = 'WANTED', and the read of
\* self.clock in `self.clock += 1`
RequestCS(n) ==
    /\ pc[n] = "idle"
    /\ state[n] = "RELEASED"
    /\ cycles[n] < driver_calls
    /\ state' = [state EXCEPT ![n] = "WANTED"]
    /\ m_read' = [m_read EXCEPT ![n].clock = clock[n]]
    /\ cycles' = [cycles EXCEPT ![n] = @ + 1]
    /\ pc' = [pc EXCEPT ![n] = "tick"]
    /\ queue_at_request' = [queue_at_request EXCEPT ![n] = request_queue[n]]
    /\ UNCHANGED <<clock, request_queue, replies_received, request_timestamp,
                   hpc, hcall, h_read, threads, lost,
                   served, req_failed, received_ts, lparams, bvars, dvars, xvars>>

\* the write of `self.clock += 1` (line 67, called from line 115)
RequestTick(n) ==
    /\ pc[n] = "tick"
    /\ clock' = [clock EXCEPT ![n] = TickClock(m_read[n].clock, 0)]
    /\ m_read' = [m_read EXCEPT ![n] = NoRead]
    /\ pc' = [pc EXCEPT ![n] = "stamp"]
    /\ UNCHANGED <<state, request_queue, replies_received, request_timestamp,
                   hpc, hcall, h_read, threads, cycles, lost,
                   served, req_failed, queue_at_request, received_ts, lparams, bvars, dvars, xvars>>

\* line 118: request_timestamp = self.clock
RequestStamp(n) ==
    /\ pc[n] = "stamp"
    /\ request_timestamp' = [request_timestamp EXCEPT ![n] = clock[n]]
    /\ pc' = [pc EXCEPT ![n] = "enqueue"]
    /\ UNCHANGED <<state, clock, request_queue, replies_received, m_read,
                   hpc, hcall, h_read, threads, cycles, lost,
                   served, req_failed, queue_at_request, received_ts, lparams, bvars, dvars, xvars>>

\* line 119: the own request is appended
RequestEnqueue(n) ==
    /\ pc[n] = "enqueue"
    /\ request_queue' = [request_queue EXCEPT
           ![n] = Append(@, <<request_timestamp[n], n>>)]
    /\ pc' = [pc EXCEPT ![n] = "sort"]
    /\ UNCHANGED <<state, clock, replies_received, request_timestamp, m_read,
                   hpc, hcall, h_read, threads, cycles, lost,
                   served, req_failed, queue_at_request, received_ts, lparams, bvars, dvars, xvars>>

\* lines 120-126: the queue is sorted, the replies cleared and the request
\* broadcast started
RequestSort(n) ==
    /\ pc[n] = "sort"
    /\ request_queue' = [request_queue EXCEPT ![n] = SortQueue(@)]
    /\ replies_received' = [replies_received EXCEPT ![n] = {}]
    /\ threads' = StartThread(threads, n, "request", request_timestamp[n], cycles[n])
    /\ pc' = [pc EXCEPT ![n] = "wait"]
    /\ UNCHANGED <<state, clock, request_timestamp, m_read,
                   hpc, hcall, h_read, cycles, lost,
                   served, req_failed, queue_at_request, received_ts, lparams, bvars, dvars, xvars>>

\* the entry test of lines 132 and 134
CanEnter(n) ==
    /\ Cardinality(replies_received[n]) = node_count - 1
    /\ request_queue[n] # <<>>
    /\ request_queue[n][1][2] = n

\* lines 129-135: the loop's test succeeds and enter_cs is called
CheckEntry(n) ==
    /\ pc[n] = "wait"
    /\ CanEnter(n)
    /\ pc' = [pc EXCEPT ![n] = "enter"]
    /\ UNCHANGED <<state, clock, request_queue, replies_received,
                   request_timestamp, m_read, hpc, hcall, h_read, threads,
                   cycles, lost,
                   served, req_failed, queue_at_request, received_ts, lparams, bvars, dvars, xvars>>

\* enter_cs, line 141
EnterCS(n) ==
    /\ pc[n] = "enter"
    /\ state' = [state EXCEPT ![n] = "HELD"]
    /\ pc' = [pc EXCEPT ![n] = "held"]
    /\ UNCHANGED <<clock, request_queue, replies_received, request_timestamp,
                   m_read, hpc, hcall, h_read, threads, cycles, lost,
                   served, req_failed, queue_at_request, received_ts, lparams, bvars, dvars, xvars>>

\* release_cs, lines 149-152: state = 'RELEASED' and the list comprehension
\* over the queue as it is now
ReleaseCS(n) ==
    /\ pc[n] = "held"
    /\ state' = [state EXCEPT ![n] = "RELEASED"]
    /\ m_read' = [m_read EXCEPT ![n].queue = RemoveSender(request_queue[n], n)]
    /\ pc' = [pc EXCEPT ![n] = "release"]
    /\ UNCHANGED <<clock, request_queue, replies_received, request_timestamp,
                   hpc, hcall, h_read, threads, cycles, lost,
                   served, req_failed, queue_at_request, received_ts, lparams, bvars, dvars, xvars>>

\* lines 152-156: the new list is stored in self.request_queue and the
\* release broadcast starts
ReleaseStore(n) ==
    /\ pc[n] = "release"
    /\ request_queue' = [request_queue EXCEPT ![n] = m_read[n].queue]
    /\ m_read' = [m_read EXCEPT ![n] = NoRead]
    /\ threads' = StartThread(threads, n, "release", 0, cycles[n])
    /\ pc' = [pc EXCEPT ![n] = "idle"]
    /\ UNCHANGED <<state, clock, replies_received, request_timestamp,
                   hpc, hcall, h_read, cycles, lost,
                   served, req_failed, queue_at_request, received_ts, lparams, bvars, dvars, xvars>>

\* the call t is being run by its target's server thread
InService(t) == hpc[t.idx] # "idle" /\ hcall[t.idx] = t

\* The server of node t.idx takes the call of broadcast thread t (lines 97
\* and 102) and runs the handler up to its read of self.clock (lines 65, 67)
HandlerAccept(t) ==
    /\ t \in threads
    /\ hpc[t.idx] = "idle"
    /\ served < max_served
    /\ served' = served + 1
    /\ hcall' = [hcall EXCEPT ![t.idx] = t]
    /\ h_read' = [h_read EXCEPT ![t.idx].clock = clock[t.idx]]
    /\ hpc' = [hpc EXCEPT ![t.idx] = "tick"]
    /\ UNCHANGED <<state, clock, request_queue, replies_received,
                   request_timestamp, pc, m_read, threads, cycles, lost,
                   req_failed, queue_at_request, received_ts, lparams, bvars, dvars, xvars>>

\* the handler's write of self.clock (lines 65, 67)
HandlerTick(n) ==
    /\ hpc[n] = "tick"
    /\ clock' = [clock EXCEPT ![n] = TickClock(h_read[n].clock, hcall[n].ts)]
    /\ h_read' = [h_read EXCEPT ![n] = NoRead]
    /\ hpc' = [hpc EXCEPT ![n] = hcall[n].method]
    /\ UNCHANGED <<state, request_queue, replies_received, request_timestamp,
                   pc, m_read, hcall, threads, cycles, lost,
                   served, req_failed, queue_at_request, received_ts, lparams, bvars, dvars, xvars>>

\* receive_request, line 74: the entry is appended
ReceiveAppend(n) ==
    /\ hpc[n] = "request"
    /\ request_queue' = [request_queue EXCEPT
           ![n] = Append(@, <<hcall[n].ts, hcall[n].src>>)]
    /\ hpc' = [hpc EXCEPT ![n] = "sort"]
    /\ UNCHANGED <<state, clock, replies_received, request_timestamp, pc,
                   m_read, hcall, h_read, threads, cycles, lost,
                   served, req_failed, queue_at_request, received_ts, lparams, bvars, dvars, xvars>>

\* receive_request, lines 75-78, and the caller's lines 99-100: the queue is
\* sorted, "REPLY" returned and recorded by the caller
ReceiveRequest(n) ==
    /\ hpc[n] = "sort"
    /\ request_queue' = [request_queue EXCEPT ![n] = SortQueue(@)]
    /\ replies_received' = [replies_received EXCEPT ![hcall[n].src] = @ \cup {n}]
    /\ threads' = Advance(threads, hcall[n])
    /\ hcall' = [hcall EXCEPT ![n] = NoCall]
    /\ hpc' = [hpc EXCEPT ![n] = "idle"]
    /\ received_ts' = [received_ts EXCEPT ![n] = Max(@, hcall[n].ts)]
    /\ UNCHANGED <<state, clock, request_timestamp, pc, m_read, h_read,
                   cycles, lost,
                   served, req_failed, queue_at_request, lparams, bvars, dvars, xvars>>

\* receive_release, line 84: the list comprehension over the queue as it is
ReceiveRelease(n) ==
    /\ hpc[n] = "release"
    /\ h_read' = [h_read EXCEPT ![n].queue = RemoveSender(request_queue[n], hcall[n].src)]
    /\ hpc' = [hpc EXCEPT ![n] = "store"]
    /\ UNCHANGED <<state, clock, request_queue, replies_received,
                   request_timestamp, pc, m_read, hcall, threads, cycles, lost,
                   served, req_failed, queue_at_request, received_ts, lparams, bvars, dvars, xvars>>

\* receive_release, lines 84-86: the new list is stored and "OK" returned
ReleaseDone(n) ==
    /\ hpc[n] = "store"
    /\ request_queue' = [request_queue EXCEPT ![n] = h_read[n].queue]
    /\ h_read' = [h_read EXCEPT ![n] = NoRead]
    /\ threads' = Advance(threads, hcall[n])
    /\ hcall' = [hcall EXCEPT ![n] = NoCall]
    /\ hpc' = [hpc EXCEPT ![n] = "idle"]
    /\ UNCHANGED <<state, clock, replies_received, request_timestamp, pc,
                   m_read, cycles, lost,
                   served, req_failed, queue_at_request, received_ts, lparams, bvars, dvars, xvars>>

\* a call that raises ends the whole loop of _broadcast
SendFails_Aborts(t) ==
    /\ t \in threads
    /\ ~InService(t)
    /\ lost < MaxLost
    /\ lost' = lost + 1
    /\ req_failed' = req_failed \cup {t}
    /\ threads' = threads \ {t}
    /\ UNCHANGED <<state, clock, request_queue, replies_received,
                   request_timestamp, pc, m_read, hpc, hcall, h_read, cycles,
                   served, queue_at_request, received_ts, lparams, bvars, dvars, xvars>>

\* a call that raised counted as a reply
SendFails_CountsReply(t) ==
    /\ t \in threads
    /\ ~InService(t)
    /\ lost < MaxLost
    /\ lost' = lost + 1
    /\ req_failed' = req_failed \cup {t}
    /\ replies_received' = [replies_received EXCEPT ![t.src] =
           IF t.method = "request" THEN @ \cup {t.idx} ELSE @]
    /\ threads' = Advance(threads, t)
    /\ UNCHANGED <<state, clock, request_queue,
                   request_timestamp, pc, m_read, hpc, hcall, h_read, cycles,
                   served, queue_at_request, received_ts, lparams, bvars, dvars, xvars>>

\* _broadcast, lines 103-106: the call raises before it reaches the peer and
\* the loop goes on to the next peer
SendFails(t) ==
    /\ t \in threads
    /\ ~InService(t)
    /\ lost < MaxLost
    /\ lost' = lost + 1
    /\ req_failed' = req_failed \cup {t}
    /\ threads' = Advance(threads, t)
    /\ UNCHANGED <<state, clock, request_queue, replies_received,
                   request_timestamp, pc, m_read, hpc, hcall, h_read, cycles,
                   served, queue_at_request, received_ts, lparams, bvars, dvars, xvars>>

MainStep(n) ==
    \/ RequestCS(n)
    \/ RequestTick(n)
    \/ RequestStamp(n)
    \/ RequestEnqueue(n)
    \/ RequestSort(n)
    \/ CheckEntry(n)
    \/ EnterCS(n)
    \/ ReleaseCS(n)
    \/ ReleaseStore(n)

HandlerStep(n) ==
    \/ HandlerTick(n)
    \/ ReceiveAppend(n)
    \/ ReceiveRequest(n)
    \/ ReceiveRelease(n)
    \/ ReleaseDone(n)

LNext ==
    \/ \E n \in Nodes : MainStep(n)
    \/ \E n \in Nodes : HandlerStep(n)
    \/ \E t \in threads : HandlerAccept(t)
    \/ \E t \in threads : SendFails(t)

\* Reliable delivery: no call raises
LiveNext ==
    \/ \E n \in Nodes : MainStep(n)
    \/ \E n \in Nodes : HandlerStep(n)
    \/ \E t \in threads : HandlerAccept(t)

(***************************************************************************)
(* Part 2: ByzantineNode and run_byzantine_simulation of                   *)
(* combined_assignments.py.  The simulation is one thread making           *)
(* synchronous calls, so every receive_message call is one step.  A Python *)
(* str is a sequence of one-character strings.                             *)
(***************************************************************************)

Orders == {"ATTACK", "RETREAT"}

\* commander_id = 0
CommanderId == 0

DigitChars == <<"0", "1", "2", "3", "4", "5", "6", "7", "8", "9">>

\* str(n)
RECURSIVE Str(_)
Str(n) == IF n < 10 THEN <<DigitChars[n + 1]>>
          ELSE Str(n \div 10) \o <<DigitChars[(n % 10) + 1]>>

\* "->".join(map(str, path))
RECURSIVE JoinArrow(_)
JoinArrow(path) ==
    IF path = <<>> THEN <<>>
    ELSE IF Len(path) = 1 THEN Str(path[1])
    ELSE Str(path[1]) \o <<"-", ">">> \o JoinArrow(Tail(path))

\* receive_message's path_str
PathStr(path) == JoinArrow(path)

\* decide's f"{commander_id}->{lt_id}"
RelayKey(commander_id, lt_id) == Str(commander_id) \o <<"-", ">">> \o Str(lt_id)

\* list(range(n))
SeqRange(n) == [i \in 1 .. n |-> i - 1]

InPath(path, i) == \E k \in DOMAIN path : path[k] = i

\* [i for i in range(self.total_nodes) if i not in commander_id_path]
Lieutenants(n, path) == SelectSeq(SeqRange(n), LAMBDA i : ~InPath(path, i))

EmptyDict == [k \in {} |-> <<>>]

\* a missing path read as ATTACK
FirstOrDefault_Attack(msgs, key) ==
    IF key \in DOMAIN msgs THEN msgs[key][1] ELSE "ATTACK"

\* self.messages.get(key, ["RETREAT"])[0]
FirstOrDefault(msgs, key) ==
    IF key \in DOMAIN msgs THEN msgs[key][1] ELSE "RETREAT"

\* self.messages[path_str].append(order) on a defaultdict(list)
StoreMessage(msgs, key, order) ==
    IF key \in DOMAIN msgs
    THEN [msgs EXCEPT ![key] = Append(@, order)]
    ELSE [k \in DOMAIN msgs \cup {key} |->
             IF k = key THEN <<order>> ELSE msgs[k]]

Flip(order) == IF order = "ATTACK" THEN "RETREAT" ELSE "ATTACK"

\* execute_om, lines 246-248: what a node sends to lt_id
CurrentOrder(is_traitor, lt_id, order) ==
    IF is_traitor /\ lt_id % 2 = 0 THEN Flip(order) ELSE order

Count(values, v) == Cardinality({i \in DOMAIN values : values[i] = v})

FirstIndex(values, v) ==
    CHOOSE i \in DOMAIN values :
        values[i] = v /\ \A j \in DOMAIN values : values[j] = v => i <= j

\* the first value taken for the majority
Majority_FirstValue(values) ==
    IF values = <<>> THEN "RETREAT" ELSE values[1]

\* _majority: Counter(values).most_common(1)[0][0] is the value with the
\* largest count, and of several such the one that occurs first
Majority(values) ==
    IF values = <<>> THEN "RETREAT"
    ELSE LET vs == {values[i] : i \in DOMAIN values}
         IN  CHOOSE v \in vs : \A w \in vs :
                 \/ Count(values, v) > Count(values, w)
                 \/ /\ Count(values, v) = Count(values, w)
                    /\ FirstIndex(values, v) <= FirstIndex(values, w)

\* decide's other_lieutenants
OtherLieutenants(id, n, commander_id) ==
    SelectSeq(SeqRange(n), LAMBDA i : i # id /\ i # commander_id)

\* decide's all_values, lines 274-285
AllValues(id, n, commander_id, msgs) ==
    LET others == OtherLieutenants(id, n, commander_id)
    IN  <<FirstOrDefault(msgs, Str(commander_id))>> \o
        [k \in DOMAIN others |->
            FirstOrDefault(msgs, RelayKey(commander_id, others[k]))]

\* decide, lines 268-288, for a node that is not the commander
ByzDecide(id, n, m, commander_id, msgs) ==
    IF m = 0 THEN FirstOrDefault(msgs, Str(commander_id))
    ELSE Majority(AllValues(id, n, commander_id, msgs))

\* the test of line 300 with < for <=
Rejected_Strict(n, m) == n < 3 * m

\* line 300
Rejected(n, m) == n <= 3 * m

\* the lowest ids taken for the highest
TraitorIds_Lowest(n, m) == {i : i \in 0 .. (m - 1)}

\* line 305
TraitorIds(n, m) == {n - 1 - i : i \in 0 .. (m - 1)}

CurrentPath == current_paths[path_idx]

\* path[-1]
CurrentCommander == CurrentPath[Len(CurrentPath)]

CurrentLieutenants == Lieutenants(total_nodes, CurrentPath)

BInit ==
    /\ total_nodes \in 1 .. MaxByzNodes
    /\ num_traitors \in 0 .. MaxTraitors
    /\ commander_order \in Orders
    /\ traitor_ids = {}
    /\ messages = <<>>
    /\ final_decision = <<>>
    /\ path_history = <<>>
    /\ current_paths = <<>>
    /\ loop_i = 0
    /\ path_idx = 0
    /\ order_to_send = "None"
    /\ lt_idx = 0
    /\ decide_idx = 0
    /\ failed = 0
    /\ bpc = "init"

\* Part 2 is not running
BIdle ==
    /\ total_nodes = 0
    /\ num_traitors = 0
    /\ commander_order = "None"
    /\ traitor_ids = {}
    /\ messages = <<>>
    /\ final_decision = <<>>
    /\ path_history = <<>>
    /\ current_paths = <<>>
    /\ loop_i = 0
    /\ path_idx = 0
    /\ order_to_send = "None"
    /\ lt_idx = 0
    /\ decide_idx = 0
    /\ failed = 0
    /\ bpc = "off"

\* lines 300-302: the configuration is refused
Reject ==
    /\ bpc = "init"
    /\ Rejected(total_nodes, num_traitors)
    /\ bpc' = "rejected"
    /\ UNCHANGED <<total_nodes, num_traitors, commander_order, traitor_ids,
                   messages, final_decision, path_history, current_paths,
                   loop_i, path_idx, order_to_send, lt_idx, decide_idx, failed,
                   lvars, dvars, xvars>>

\* lines 305-308: the traitors are chosen and the nodes built
NodesBuilt ==
    /\ traitor_ids' = TraitorIds(total_nodes, num_traitors)
    /\ messages' = [n \in 0 .. (total_nodes - 1) |-> EmptyDict]
    /\ final_decision' = [n \in 0 .. (total_nodes - 1) |-> "None"]

\* lines 300-337: the servers start and the first round begins
Start ==
    /\ bpc = "init"
    /\ ~Rejected(total_nodes, num_traitors)
    /\ NodesBuilt
    /\ path_history' = <<<<CommanderId>>>>
    /\ current_paths' = <<<<CommanderId>>>>
    /\ loop_i' = 0
    /\ path_idx' = 1
    /\ bpc' = "loop"
    /\ UNCHANGED <<total_nodes, num_traitors, commander_order, order_to_send,
                   lt_idx, decide_idx, failed,
                   lvars, dvars, xvars>>

\* lines 312-322: a server cannot be started and the simulation returns
ServerFails ==
    /\ bpc = "init"
    /\ ~Rejected(total_nodes, num_traitors)
    /\ NodesBuilt
    /\ bpc' = "aborted"
    /\ UNCHANGED <<total_nodes, num_traitors, commander_order, path_history,
                   current_paths, loop_i, path_idx, order_to_send, lt_idx,
                   decide_idx, failed,
                   lvars, dvars, xvars>>

\* the relayed order looked up under the whole path, not under path[:-1]
OrderToSend_WholePath ==
    IF Len(CurrentPath) > 1
    THEN FirstOrDefault(messages[CurrentCommander], PathStr(CurrentPath))
    ELSE commander_order

\* lines 342-347
OrderToSend ==
    IF Len(CurrentPath) > 1
    THEN FirstOrDefault(messages[CurrentCommander],
                        PathStr(SubSeq(CurrentPath, 1, Len(CurrentPath) - 1)))
    ELSE commander_order

\* lines 338-350: the next path of current_paths, up to the call of execute_om
BeginPath ==
    /\ bpc = "loop"
    /\ path_idx <= Len(current_paths)
    /\ order_to_send' = OrderToSend
    /\ lt_idx' = 1
    /\ bpc' = "om"
    /\ UNCHANGED <<total_nodes, num_traitors, commander_order, traitor_ids,
                   messages, final_decision, path_history, current_paths,
                   loop_i, path_idx, decide_idx, failed,
                   lvars, dvars, xvars>>

\* receive_message, lines 224-227, run at the lieutenant lt_idx points at
Deliver(order) ==
    /\ messages' = [messages EXCEPT
           ![CurrentLieutenants[lt_idx]] = StoreMessage(@, PathStr(CurrentPath), order)]
    /\ lt_idx' = lt_idx + 1
    /\ UNCHANGED <<total_nodes, num_traitors, commander_order, traitor_ids,
                   final_decision, path_history, current_paths, loop_i,
                   path_idx, order_to_send, decide_idx, failed, bpc,
                   lvars, dvars, xvars>>

\* execute_om, lines 245-256: one turn of the loop, the call returns
SendOrder ==
    /\ bpc = "om"
    /\ lt_idx <= Len(CurrentLieutenants)
    /\ Deliver(CurrentOrder(CurrentCommander \in traitor_ids,
                            CurrentLieutenants[lt_idx], order_to_send))

\* execute_om, lines 254-259: one turn of the loop, the call raises
SendRaises ==
    /\ bpc = "om"
    /\ lt_idx <= Len(CurrentLieutenants)
    /\ failed < MaxFailed
    /\ failed' = failed + 1
    /\ lt_idx' = lt_idx + 1
    /\ UNCHANGED <<total_nodes, num_traitors, commander_order, traitor_ids,
                   messages, final_decision, path_history, current_paths,
                   loop_i, path_idx, order_to_send, decide_idx, bpc,
                   lvars, dvars, xvars>>

\* path + [lt_id] for lt_id in lieutenants, lines 354-356
NewPaths(path, n) ==
    LET lts == Lieutenants(n, path)
    IN  [k \in DOMAIN lts |-> Append(path, lts[k])]

\* execute_om has returned; lines 353-356
EndOM ==
    /\ bpc = "om"
    /\ lt_idx > Len(CurrentLieutenants)
    /\ path_history' = IF num_traitors - loop_i > 0
                       THEN path_history \o NewPaths(CurrentPath, total_nodes)
                       ELSE path_history
    /\ path_idx' = path_idx + 1
    /\ lt_idx' = 0
    /\ bpc' = "loop"
    /\ UNCHANGED <<total_nodes, num_traitors, commander_order, traitor_ids,
                   messages, final_decision, current_paths, loop_i,
                   order_to_send, decide_idx, failed,
                   lvars, dvars, xvars>>

\* lines 336-337: the next i of range(m + 1)
NextRound ==
    /\ bpc = "loop"
    /\ path_idx > Len(current_paths)
    /\ loop_i < num_traitors
    /\ loop_i' = loop_i + 1
    /\ current_paths' = path_history
    /\ path_idx' = 1
    /\ UNCHANGED <<total_nodes, num_traitors, commander_order, traitor_ids,
                   messages, final_decision, path_history, order_to_send,
                   lt_idx, decide_idx, failed, bpc,
                   lvars, dvars, xvars>>

\* line 336 is exhausted; lines 358-362
EndRounds ==
    /\ bpc = "loop"
    /\ path_idx > Len(current_paths)
    /\ loop_i >= num_traitors
    /\ decide_idx' = 0
    /\ bpc' = "decide"
    /\ UNCHANGED <<total_nodes, num_traitors, commander_order, traitor_ids,
                   messages, final_decision, path_history, current_paths,
                   loop_i, path_idx, order_to_send, lt_idx, failed,
                   lvars, dvars, xvars>>

\* lines 362-364: one turn of the loop over nodes
DecideStep ==
    /\ bpc = "decide"
    /\ decide_idx < total_nodes
    /\ final_decision' =
           IF decide_idx # CommanderId
           THEN [final_decision EXCEPT ![decide_idx] =
                    ByzDecide(decide_idx, total_nodes, num_traitors,
                              CommanderId, messages[decide_idx])]
           ELSE final_decision
    /\ decide_idx' = decide_idx + 1
    /\ UNCHANGED <<total_nodes, num_traitors, commander_order, traitor_ids,
                   messages, path_history, current_paths, loop_i, path_idx,
                   order_to_send, lt_idx, failed, bpc,
                   lvars, dvars, xvars>>

\* lines 366-369
Finish ==
    /\ bpc = "decide"
    /\ decide_idx >= total_nodes
    /\ bpc' = "done"
    /\ UNCHANGED <<total_nodes, num_traitors, commander_order, traitor_ids,
                   messages, final_decision, path_history, current_paths,
                   loop_i, path_idx, order_to_send, lt_idx, decide_idx, failed,
                   lvars, dvars, xvars>>

BNext ==
    \/ Reject
    \/ Start
    \/ ServerFails
    \/ BeginPath
    \/ SendOrder
    \/ SendRaises
    \/ EndOM
    \/ NextRound
    \/ EndRounds
    \/ DecideStep
    \/ Finish

(***************************************************************************)
(* Part 3: Lieutenant.decide of byzantine_node.py and of                    *)
(* code/lieutenant.py.  A dict is the sequence of its <<key, value>> pairs  *)
(* in insertion order.                                                      *)
(***************************************************************************)

HasKey(d, key) == \E i \in DOMAIN d : d[i][1] = key

Lookup(d, key) == d[CHOOSE i \in DOMAIN d : d[i][1] = key][2]

\* byzantine_node.py decide, lines 65-89
BnDecide(msgs) ==
    IF ~HasKey(msgs, <<CommanderId>>) THEN "RETREAT"
    ELSE LET two == SelectSeq(msgs, LAMBDA e : Len(e[1]) = 2)
             values == <<Lookup(msgs, <<CommanderId>>)[1]>> \o
                       [k \in DOMAIN two |-> two[k][2][1]]
         IN  Majority(values)

\* code/lieutenant.py decide, lines 142-152
LtDecide(msgs) ==
    IF msgs = <<>> THEN "None"
    ELSE Majority([k \in DOMAIN msgs |-> msgs[k][2]])

\* Part 3 is not running
DIdle ==
    /\ bn_messages = <<>>
    /\ bn_final_decision = "None"
    /\ lt_msgs = <<>>
    /\ lt_decision = "pending"

\* the entries of a dict that holds `keys` in this order, each with the
\* value `f` gives it, or without the key where f says "absent"
RECURSIVE DictOf(_, _)
DictOf(keys, f) ==
    IF keys = <<>> THEN <<>>
    ELSE LET rest == DictOf(Tail(keys), [k \in 1 .. (Len(keys) - 1) |-> f[k + 1]])
         IN  IF f[1] = "absent" THEN rest
             ELSE <<<<keys[1], f[1]>>>> \o rest

\* the same dict with every value v replaced by the list [v]
ListValues(d) == [k \in DOMAIN d |-> <<d[k][1], <<d[k][2]>>>>]

\* The message stores lieutenant 1 of four nodes can hold when decide is
\* called: of the commander's order and the relays of lieutenants 2 and 3,
\* each one arrived or did not.
DInit ==
    \E f \in [1 .. 3 -> Orders \cup {"absent"}] :
        /\ total_nodes = 4
        /\ num_traitors \in 0 .. 1
        /\ commander_order = "None"
        /\ traitor_ids = TraitorIds(total_nodes, num_traitors)
        /\ messages = [n \in 0 .. 3 |->
               IF n = 1
               THEN LET d == ListValues(DictOf(<<PathStr(<<0>>), PathStr(<<0, 2>>),
                                                 PathStr(<<0, 3>>)>>, f))
                    IN  [k \in {d[i][1] : i \in DOMAIN d} |-> Lookup(d, k)]
               ELSE EmptyDict]
        /\ final_decision = [n \in 0 .. 3 |-> "None"]
        /\ path_history = <<>>
        /\ current_paths = <<>>
        /\ loop_i = 0
        /\ path_idx = 0
        /\ order_to_send = "None"
        /\ lt_idx = 0
        /\ decide_idx = 0
        /\ failed = 0
        /\ bpc = "decide"
        /\ bn_messages = ListValues(DictOf(<<<<0>>, <<0, 2>>, <<0, 3>>>>, f))
        /\ bn_final_decision = "None"
        /\ lt_msgs = DictOf(<<<<"C", 1>>, <<2>>, <<3>>>>, f)
        /\ lt_decision = "pending"

\* byzantine_node.py: decide is called
BnDecides ==
    /\ bn_final_decision = "None"
    /\ bn_final_decision' = BnDecide(bn_messages)
    /\ UNCHANGED <<bn_messages, lt_msgs, lt_decision,
                   lvars, bvars, xvars>>

\* code/lieutenant.py: decide is called and returns
LtDecides ==
    /\ lt_decision = "pending"
    /\ lt_decision' = LtDecide(lt_msgs)
    /\ UNCHANGED <<bn_messages, bn_final_decision, lt_msgs,
                   lvars, bvars, xvars>>

(***************************************************************************)
(* Part 2 with a free traitor: four nodes, one traitor, which may be any   *)
(* node and sends any order, or none, to each recipient.  Line 305 and     *)
(* lines 247-248 are the one choice of this that the simulation makes.     *)
(***************************************************************************)

AdvInit ==
    /\ total_nodes = 4
    /\ num_traitors = 1
    /\ commander_order \in Orders
    /\ traitor_ids = {}
    /\ messages = <<>>
    /\ final_decision = <<>>
    /\ path_history = <<>>
    /\ current_paths = <<>>
    /\ loop_i = 0
    /\ path_idx = 0
    /\ order_to_send = "None"
    /\ lt_idx = 0
    /\ decide_idx = 0
    /\ failed = 0
    /\ bpc = "init"

\* lines 300-337 with any one node as the traitor
AdvStart ==
    /\ bpc = "init"
    /\ ~Rejected(total_nodes, num_traitors)
    /\ \E t \in 0 .. (total_nodes - 1) : traitor_ids' = {t}
    /\ messages' = [n \in 0 .. (total_nodes - 1) |-> EmptyDict]
    /\ final_decision' = [n \in 0 .. (total_nodes - 1) |-> "None"]
    /\ path_history' = <<<<CommanderId>>>>
    /\ current_paths' = <<<<CommanderId>>>>
    /\ loop_i' = 0
    /\ path_idx' = 1
    /\ bpc' = "loop"
    /\ UNCHANGED <<total_nodes, num_traitors, commander_order, order_to_send,
                   lt_idx, decide_idx, failed, lvars, dvars, xvars>>

\* execute_om, lines 245-256, by a loyal node
LoyalSend ==
    /\ bpc = "om"
    /\ lt_idx <= Len(CurrentLieutenants)
    /\ CurrentCommander \notin traitor_ids
    /\ Deliver(CurrentOrder(FALSE, CurrentLieutenants[lt_idx], order_to_send))

\* execute_om, lines 245-256, by the traitor: any order
TraitorSend ==
    /\ bpc = "om"
    /\ lt_idx <= Len(CurrentLieutenants)
    /\ CurrentCommander \in traitor_ids
    /\ \E v \in Orders : Deliver(v)

\* execute_om, lines 245-259, by the traitor: nothing arrives
TraitorSilent ==
    /\ bpc = "om"
    /\ lt_idx <= Len(CurrentLieutenants)
    /\ CurrentCommander \in traitor_ids
    /\ lt_idx' = lt_idx + 1
    /\ UNCHANGED <<total_nodes, num_traitors, commander_order, traitor_ids,
                   messages, final_decision, path_history, current_paths,
                   loop_i, path_idx, order_to_send, decide_idx, failed, bpc,
                   lvars, dvars, xvars>>

AdvNext ==
    \/ AdvStart
    \/ BeginPath
    \/ LoyalSend
    \/ TraitorSend
    \/ TraitorSilent
    \/ EndOM
    \/ NextRound
    \/ EndRounds
    \/ DecideStep
    \/ Finish

(***************************************************************************)
(* Part 4: LamportNode of code/node.py.  The clock, the queue and the ack  *)
(* counter are each touched only inside `with` blocks of their own lock,   *)
(* so a block is one step.  request_critical_section makes its calls       *)
(* itself, one peer after the other, and waits for each to return; the     *)
(* server thread runs one handler at a time (handle_request, line 61).     *)
(***************************************************************************)

\* len(self.nodes) of the runs of code/node.py
NodePyNodes == 2

\* how many times the CLI of code/node.py is given 'req' on each node
NodePyCycles == 2

\* how many calls of a run of code/node.py may raise in the caller
NodePyLost == 1

\* the ids of config.json, as in the module's docstring: 1, 2, ...
NpIds == 1 .. NodePyNodes

NpNoCall == [src |-> 0, method |-> "none", ts |-> 0]

\* everything outside Part 4
nothers == <<lvars, bvars, dvars, ovars, svars, rvars>>

\* the next nid of `for nid, (h, p) in self.nodes.items()` that is not
\* self.id, or NodePyNodes + 1 when the loop is over
NpNextPeer(n, from) ==
    IF \E i \in NpIds : i >= from /\ i # n
    THEN CHOOSE i \in NpIds : /\ i >= from /\ i # n
                              /\ \A j \in NpIds : (j >= from /\ j # n) => i <= j
    ELSE NodePyNodes + 1

\* where the caller stands once the loop of broadcast_request or of
\* broadcast_release has moved on to nid `nxt`
NpAfter(method, nxt) ==
    IF nxt <= NodePyNodes
    THEN (IF method = "request" THEN "send" ELSE "release")
    ELSE (IF method = "request" THEN "count" ELSE "idle")

\* Part 4 is not running
NIdle ==
    /\ np_clock = <<>>
    /\ np_queue = <<>>
    /\ np_ack_count = <<>>
    /\ np_ts = <<>>
    /\ np_ok = <<>>
    /\ np_pc = <<>>
    /\ np_peer = <<>>
    /\ np_hpc = <<>>
    /\ np_hcall = <<>>
    /\ np_cycles = <<>>
    /\ np_lost = 0

\* __init__, lines 36-45, on every node
NInit ==
    /\ np_clock = [n \in NpIds |-> 0]
    /\ np_queue = [n \in NpIds |-> <<>>]
    /\ np_ack_count = [n \in NpIds |-> 0]
    /\ np_ts = [n \in NpIds |-> 0]
    /\ np_ok = [n \in NpIds |-> FALSE]
    /\ np_pc = [n \in NpIds |-> "idle"]
    /\ np_peer = [n \in NpIds |-> 0]
    /\ np_hpc = [n \in NpIds |-> "idle"]
    /\ np_hcall = [n \in NpIds |-> NpNoCall]
    /\ np_cycles = [n \in NpIds |-> 0]
    /\ np_lost = 0

\* request_critical_section, lines 134-136
NpRequest(n) ==
    /\ np_pc[n] = "idle"
    /\ np_cycles[n] < NodePyCycles
    /\ np_cycles' = [np_cycles EXCEPT ![n] = @ + 1]
    /\ np_clock' = [np_clock EXCEPT ![n] = @ + 1]
    /\ np_ts' = [np_ts EXCEPT ![n] = np_clock[n] + 1]
    /\ np_pc' = [np_pc EXCEPT ![n] = "append"]
    /\ UNCHANGED <<np_queue, np_ack_count, np_ok, np_peer, np_hpc, np_hcall,
                   np_lost, nothers>>

\* lines 138-140
NpAppendOwn(n) ==
    /\ np_pc[n] = "append"
    /\ np_queue' = [np_queue EXCEPT ![n] = SortQueue(Append(@, <<np_ts[n], n>>))]
    /\ np_pc' = [np_pc EXCEPT ![n] = "reset"]
    /\ UNCHANGED <<np_clock, np_ack_count, np_ts, np_ok, np_peer, np_hpc,
                   np_hcall, np_cycles, np_lost, nothers>>

\* broadcast_request, lines 93-98
NpResetAcks(n) ==
    /\ np_pc[n] = "reset"
    /\ np_ack_count' = [np_ack_count EXCEPT ![n] = 0]
    /\ np_peer' = [np_peer EXCEPT ![n] = NpNextPeer(n, 1)]
    /\ np_pc' = [np_pc EXCEPT ![n] = NpAfter("request", NpNextPeer(n, 1))]
    /\ UNCHANGED <<np_clock, np_queue, np_ts, np_ok, np_hpc, np_hcall,
                   np_cycles, np_lost, nothers>>

\* lines 102 and 127: the call reaches the peer, whose server thread takes it
NpCall(n) ==
    /\ np_pc[n] \in {"send", "release"}
    /\ np_hpc[np_peer[n]] = "idle"
    /\ np_hcall' = [np_hcall EXCEPT ![np_peer[n]] =
           [src |-> n,
            method |-> IF np_pc[n] = "send" THEN "request" ELSE "release",
            ts |-> IF np_pc[n] = "send" THEN np_ts[n] ELSE 0]]
    /\ np_hpc' = [np_hpc EXCEPT ![np_peer[n]] = "clock"]
    /\ np_pc' = [np_pc EXCEPT ![n] = "call"]
    /\ UNCHANGED <<np_clock, np_queue, np_ack_count, np_ts, np_ok, np_peer,
                   np_cycles, np_lost, nothers>>

\* receive_request, lines 68-70, and receive_release, lines 81-83
NpHandlerClock(p) ==
    /\ np_hpc[p] = "clock"
    /\ np_clock' = [np_clock EXCEPT ![p] =
           IF np_hcall[p].method = "request"
           THEN Max(@, np_hcall[p].ts) + 1
           ELSE @ + 1]
    /\ np_hpc' = [np_hpc EXCEPT ![p] = "queue"]
    /\ UNCHANGED <<np_queue, np_ack_count, np_ts, np_ok, np_pc, np_peer,
                   np_hcall, np_cycles, np_lost, nothers>>

\* receive_request, lines 71-77, and receive_release, lines 84-88: the queue
\* is updated and True returned; the caller counts the ack of a request
\* (lines 103-104) and goes on to the next peer
NpHandlerQueue(p) ==
    /\ np_hpc[p] = "queue"
    /\ LET c == np_hcall[p]
           nxt == NpNextPeer(c.src, p + 1)
       IN  /\ np_queue' = [np_queue EXCEPT ![p] =
                  IF c.method = "request"
                  THEN SortQueue(Append(@, <<c.ts, c.src>>))
                  ELSE RemoveSender(@, c.src)]
           /\ np_ack_count' = [np_ack_count EXCEPT ![c.src] =
                  IF c.method = "request" THEN @ + 1 ELSE @]
           /\ np_peer' = [np_peer EXCEPT ![c.src] = nxt]
           /\ np_pc' = [np_pc EXCEPT ![c.src] = NpAfter(c.method, nxt)]
    /\ np_hcall' = [np_hcall EXCEPT ![p] = NpNoCall]
    /\ np_hpc' = [np_hpc EXCEPT ![p] = "idle"]
    /\ UNCHANGED <<np_clock, np_ts, np_ok, np_cycles, np_lost, nothers>>

\* lines 105-106 and 128-129: the call raises and the loop goes on
NpSendFails(n) ==
    /\ np_pc[n] \in {"send", "release"}
    /\ np_lost < NodePyLost
    /\ np_lost' = np_lost + 1
    /\ LET nxt == NpNextPeer(n, np_peer[n] + 1)
       IN  /\ np_peer' = [np_peer EXCEPT ![n] = nxt]
           /\ np_pc' = [np_pc EXCEPT ![n] =
                  NpAfter(IF np_pc[n] = "send" THEN "request" ELSE "release", nxt)]
    /\ UNCHANGED <<np_clock, np_queue, np_ack_count, np_ts, np_ok, np_hpc,
                   np_hcall, np_cycles, nothers>>

\* broadcast_request, lines 110-119, and lines 142-144: ok is recorded and
\* the caller goes on whatever it is
NpCountAcks(n) ==
    /\ np_pc[n] = "count"
    /\ np_ok' = [np_ok EXCEPT ![n] = (np_ack_count[n] >= NodePyNodes - 1)]
    /\ np_pc' = [np_pc EXCEPT ![n] = "wait"]
    /\ UNCHANGED <<np_clock, np_queue, np_ack_count, np_ts, np_peer, np_hpc,
                   np_hcall, np_cycles, np_lost, nothers>>

\* lines 147-155: the head of the queue is the own request
NpEnter(n) ==
    /\ np_pc[n] = "wait"
    /\ np_queue[n] # <<>>
    /\ np_queue[n][1] = <<np_ts[n], n>>
    /\ np_pc' = [np_pc EXCEPT ![n] = "cs"]
    /\ UNCHANGED <<np_clock, np_queue, np_ack_count, np_ts, np_ok, np_peer,
                   np_hpc, np_hcall, np_cycles, np_lost, nothers>>

\* lines 156-162: the critical section is left and the release broadcast
NpExit(n) ==
    /\ np_pc[n] = "cs"
    /\ np_queue' = [np_queue EXCEPT ![n] = RemoveSender(@, n)]
    /\ np_peer' = [np_peer EXCEPT ![n] = NpNextPeer(n, 1)]
    /\ np_pc' = [np_pc EXCEPT ![n] = NpAfter("release", NpNextPeer(n, 1))]
    /\ UNCHANGED <<np_clock, np_ack_count, np_ts, np_ok, np_hpc, np_hcall,
                   np_cycles, np_lost, nothers>>

NNext ==
    \/ \E n \in NpIds : NpRequest(n)
    \/ \E n \in NpIds : NpAppendOwn(n)
    \/ \E n \in NpIds : NpResetAcks(n)
    \/ \E n \in NpIds : NpCall(n)
    \/ \E n \in NpIds : NpHandlerClock(n)
    \/ \E n \in NpIds : NpHandlerQueue(n)
    \/ \E n \in NpIds : NpSendFails(n)
    \/ \E n \in NpIds : NpCountAcks(n)
    \/ \E n \in NpIds : NpEnter(n)
    \/ \E n \in NpIds : NpExit(n)

(***************************************************************************)
(* Part 5: one mutual-exclusion node of each variant, called by one thread *)
(* at a time: every call runs from its first line to its return before     *)
(* the next one starts.  "combined" is LamportNode of                      *)
(* combined_assignments.py, "lamport_node" that of lamport_node.py and     *)
(* "node" that of code/node.py.                                            *)
(***************************************************************************)

\* total_nodes of the node the calls are made on
OpTotalNodes == 3

\* the largest timestamp a peer's request carries
OpMaxTs == 3

\* how many receive_request and request_cs calls are made on the node
OpMaxCalls == 4

\* the node's own id
OpId == 0

OpPeers == (0 .. (OpTotalNodes - 1)) \ {OpId}

Variants == {"combined", "lamport_node", "node"}

\* everything outside Part 5
oothers == <<lvars, bvars, dvars, nvars, svars, rvars>>

\* combined_assignments.py receive_request, lines 73-75
CaReceiveRequest(nd, ts, s) ==
    [nd EXCEPT !.clock = TickClock(@, ts),
               !.queue = SortQueue(Append(@, <<ts, s>>))]

\* lamport_node.py receive_request, lines 37-45: the clock is advanced at
\* line 38 and again by _tick_clock at line 43
LnReceiveRequest(nd, ts, s) ==
    [nd EXCEPT !.clock = (Max(@, ts) + 1) + 1,
               !.queue = SortQueue(Append(@, <<ts, s>>))]

\* code/node.py receive_request, lines 68-74
NpReceiveRequest(nd, ts, s) ==
    [nd EXCEPT !.clock = Max(@, ts) + 1,
               !.queue = SortQueue(Append(@, <<ts, s>>))]

\* a value a handler returns over XML-RPC: a str, an int, a bool or None
PyStr(v) == [type |-> "str", str |-> v, int |-> 0, bool |-> FALSE]

PyInt(v) == [type |-> "int", str |-> "", int |-> v, bool |-> FALSE]

PyBool(v) == [type |-> "bool", str |-> "", int |-> 0, bool |-> v]

PyNone == [type |-> "none", str |-> "", int |-> 0, bool |-> FALSE]

\* bool(r) of Python
Truthy(r) ==
    CASE r.type = "str" -> r.str # ""
      [] r.type = "int" -> r.int # 0
      [] r.type = "bool" -> r.bool
      [] r.type = "none" -> FALSE

\* a receive_request that answers only when the receiver neither holds the
\* critical section nor waits with a smaller request
CaReceiveRequestReturn_Defers(nd, ts, s) ==
    IF \/ nd.state = "HELD"
       \/ nd.state = "WANTED" /\ TupleLeq(<<nd.ts, OpId>>, <<ts, s>>)
    THEN PyNone
    ELSE PyStr("REPLY")

\* combined_assignments.py receive_request, line 78
CaReceiveRequestReturn(nd, ts, s) == PyStr("REPLY")

\* lamport_node.py receive_request, line 45: the clock after lines 38 and 43
LnReceiveRequestReturn(nd, ts, s) == PyInt(LnReceiveRequest(nd, ts, s).clock)

\* code/node.py receive_request, line 77
NpReceiveRequestReturn(nd, ts, s) == PyBool(TRUE)

ReceiveRequestReturn(nd, ts, s) ==
    CASE nd.variant = "combined" -> CaReceiveRequestReturn(nd, ts, s)
      [] nd.variant = "lamport_node" -> LnReceiveRequestReturn(nd, ts, s)
      [] nd.variant = "node" -> NpReceiveRequestReturn(nd, ts, s)

ReceiveRequestOf(nd, ts, s) ==
    CASE nd.variant = "combined" -> CaReceiveRequest(nd, ts, s)
      [] nd.variant = "lamport_node" -> LnReceiveRequest(nd, ts, s)
      [] nd.variant = "node" -> NpReceiveRequest(nd, ts, s)

\* request_cs returns at once: combined_assignments.py lines 110-112;
\* lamport_node.py's request_cs has no such test
RequestCsReturnsEarly(nd) == nd.variant = "combined" /\ nd.state # "RELEASED"

\* request_cs up to its broadcast: combined_assignments.py lines 110-121
\* (the replies are cleared), lamport_node.py lines 60-65 (they are not)
RequestCsOf(nd) ==
    IF RequestCsReturnsEarly(nd) THEN nd
    ELSE [nd EXCEPT !.state = "WANTED",
                    !.clock = @ + 1,
                    !.ts = nd.clock + 1,
                    !.queue = SortQueue(Append(@, <<nd.clock + 1, OpId>>)),
                    !.replies = IF nd.variant = "combined" THEN {} ELSE @]

\* the peers request_cs starts a receive_request call to:
\* combined_assignments.py lines 126 and 91-97, lamport_node.py lines 68-72
RequestTargets(nd) ==
    IF RequestCsReturnsEarly(nd) THEN {}
    ELSE {i \in 0 .. (OpTotalNodes - 1) : i # OpId}

\* the entry test: combined_assignments.py lines 132-134, lamport_node.py
\* lines 118-125
OpCanEnter(nd) ==
    /\ Cardinality(nd.replies) = OpTotalNodes - 1
    /\ nd.queue # <<>>
    /\ nd.queue[1][2] = OpId

\* combined_assignments.py release_cs, lines 149-156: no statement of it
\* writes self.clock
CaReleaseCs(nd) ==
    [nd EXCEPT !.state = "RELEASED",
               !.queue = RemoveSender(@, OpId)]

\* lamport_node.py lines 134-135 and release_cs, lines 89-98
LnReleaseCs(nd) ==
    [nd EXCEPT !.replies = {},
               !.state = "RELEASED",
               !.clock = @ + 1,
               !.queue = RemoveSender(@, OpId)]

ReleaseCsOf(nd) ==
    IF nd.variant = "combined" THEN CaReleaseCs(nd) ELSE LnReleaseCs(nd)

\* the peers release_cs starts a receive_release call to: combined_assignments.py
\* lines 91-93, lamport_node.py lines 96-98
ReleaseTargets == {i \in 0 .. (OpTotalNodes - 1) : i # OpId}

NoOp == [op |-> "none", ts |-> 0, sender |-> -1, sent |-> {}, clock |-> 0,
         ret |-> PyNone, node |-> <<>>]

\* Part 5 is not running
OIdle ==
    /\ op_node = <<>>
    /\ op_last = NoOp
    /\ op_calls = 0

\* the node after __init__
OInit ==
    /\ \E v \in Variants :
           op_node = [variant |-> v, clock |-> 0, queue |-> <<>>,
                      state |-> "RELEASED", replies |-> {}, ts |-> 0]
    /\ op_last = NoOp
    /\ op_calls = 0

\* a peer's receive_request call is served
OpReceiveRequest(ts, s) ==
    /\ op_calls < OpMaxCalls
    /\ op_node' = ReceiveRequestOf(op_node, ts, s)
    /\ op_last' = [op |-> "receive_request", ts |-> ts, sender |-> s,
                   sent |-> {}, clock |-> op_node.clock,
                   ret |-> ReceiveRequestReturn(op_node, ts, s),
                   node |-> op_node]
    /\ op_calls' = op_calls + 1
    /\ UNCHANGED oothers

\* request_cs is called, by the driver or through the server that
\* register_instance gives every public method to, in whatever state
OpRequestCs ==
    /\ op_calls < OpMaxCalls
    /\ op_node.variant # "node"
    /\ op_node' = RequestCsOf(op_node)
    /\ op_last' = [op |-> "request_cs", ts |-> 0, sender |-> -1,
                   sent |-> RequestTargets(op_node), clock |-> op_node.clock,
                   ret |-> PyNone, node |-> op_node]
    /\ op_calls' = op_calls + 1
    /\ UNCHANGED oothers

\* a peer's reply is recorded: combined_assignments.py line 99,
\* lamport_node.py line 81
OpReply(p) ==
    /\ op_node.variant # "node"
    /\ op_node.state = "WANTED"
    /\ p \notin op_node.replies
    /\ op_node' = [op_node EXCEPT !.replies = @ \cup {p}]
    /\ op_last' = [op |-> "reply", ts |-> 0, sender |-> p,
                   sent |-> {}, clock |-> op_node.clock,
                   ret |-> PyNone, node |-> op_node]
    /\ UNCHANGED <<op_calls, oothers>>

\* the entry test succeeds: combined_assignments.py line 141, lamport_node.py
\* line 127
OpEnter ==
    /\ op_node.variant # "node"
    /\ op_node.state = "WANTED"
    /\ OpCanEnter(op_node)
    /\ op_node' = [op_node EXCEPT !.state = "HELD"]
    /\ op_last' = [op |-> "enter_cs", ts |-> 0, sender |-> -1,
                   sent |-> {}, clock |-> op_node.clock,
                   ret |-> PyNone, node |-> op_node]
    /\ UNCHANGED <<op_calls, oothers>>

\* release_cs is called on the HELD node
OpReleaseCs ==
    /\ op_node.variant # "node"
    /\ op_node.state = "HELD"
    /\ op_node' = ReleaseCsOf(op_node)
    /\ op_last' = [op |-> "release_cs", ts |-> 0, sender |-> -1,
                   sent |-> ReleaseTargets, clock |-> op_node.clock,
                   ret |-> PyNone, node |-> op_node]
    /\ UNCHANGED <<op_calls, oothers>>

ONext ==
    \/ \E ts \in 1 .. OpMaxTs : \E s \in OpPeers : OpReceiveRequest(ts, s)
    \/ OpRequestCs
    \/ \E p \in OpPeers : OpReply(p)
    \/ OpEnter
    \/ OpReleaseCs

(***************************************************************************)
(* Part 6: the message store of one lieutenant and what its handlers       *)
(* forward: Lieutenant of code/lieutenant.py (lt_msgs), Lieutenant of      *)
(* byzantine_node.py (bn_messages) and ByzantineNode of                    *)
(* combined_assignments.py (messages).  A handler's forwarding threads are *)
(* recorded by the calls they make.                                        *)
(***************************************************************************)

\* the lieutenant's own id
StId == 1

\* how many lieutenants config.json lists, and the nodes of byzantine_node.py
\* besides the commander
StLieutenants == 3

\* cfg['f'] of code/lieutenant.py
StF == 2

\* how many calls the lieutenant's server runs
StMaxCalls == 3

\* the ids of cfg['lieutenants']
LtIds == 1 .. StLieutenants

\* the paths a peer's receive_message call carries: the sender's id
LtPaths == {<<i>> : i \in LtIds \ {StId}}

\* the paths a receive_order call carries: the commander's id, then at most
\* one other lieutenant's
BnPaths == {<<CommanderId>>} \cup {<<CommanderId, i>> : i \in LtIds \ {StId}}

\* everything outside Part 6 that its calls leave alone
sothers == <<lvars, nvars, ovars, rvars>>

\* d[key] = v on a dict
DictSet(d, key, v) ==
    IF HasKey(d, key)
    THEN [i \in DOMAIN d |-> IF d[i][1] = key THEN <<key, v>> ELSE d[i]]
    ELSE Append(d, <<key, v>>)

\* byzantine_node.py lines 35-37: d[key].append(v), the list created first
\* when the key is new
DictAppend(d, key, v) ==
    IF HasKey(d, key)
    THEN [i \in DOMAIN d |->
             IF d[i][1] = key THEN <<key, Append(d[i][2], v)>> ELSE d[i]]
    ELSE Append(d, <<key, <<v>>>>)

RECURSIVE InsertInt(_, _)
InsertInt(q, e) ==
    IF q = <<>> THEN <<e>>
    ELSE IF q[Len(q)] <= e THEN Append(q, e)
    ELSE Append(InsertInt(SubSeq(q, 1, Len(q) - 1), e), q[Len(q)])

\* sorted(path)
RECURSIVE SortedPath(_)
SortedPath(path) ==
    IF path = <<>> THEN <<>>
    ELSE InsertInt(SortedPath(SubSeq(path, 1, Len(path) - 1)), path[Len(path)])

\* code/lieutenant.py _maybe_corrupt, lines 89-97, on an order
MaybeCorrupt(byzantine, val) == IF byzantine THEN Flip(val) ELSE val

\* code/lieutenant.py _om_recursive (lines 121-131) and _forward_message
\* (lines 101-111): the calls made for a value that came along `path`
LtForwards(byzantine, value, path) ==
    {[to |-> lid, value |-> MaybeCorrupt(byzantine, value),
      path |-> Append(path, StId)] :
        lid \in {l \in LtIds : l # StId /\ ~InPath(path, l)}}

\* byzantine_node.py lines 45-50 and 58: the calls made for `order`
BnForwards(order, path) ==
    {[to |-> lt_id, value |-> order, path |-> Append(path, StId)] :
        lt_id \in {i \in 1 .. StLieutenants : ~InPath(Append(path, StId), i)}}

NoStoreCall == [variant |-> "none", value |-> "None", key |-> <<>>,
                stored |-> FALSE]

\* Part 6 is not running
SIdle ==
    /\ st_traitor = FALSE
    /\ st_last = NoStoreCall
    /\ st_sent = {}
    /\ st_calls = 0

\* the three lieutenants after __init__, loyal or not
SInit ==
    /\ st_traitor \in BOOLEAN
    /\ st_last = NoStoreCall
    /\ st_sent = {}
    /\ st_calls = 0
    /\ lt_msgs = <<>>
    /\ lt_decision = "pending"
    /\ bn_messages = <<>>
    /\ bn_final_decision = "None"
    /\ total_nodes = StLieutenants + 1
    /\ num_traitors = 1
    /\ commander_order = "None"
    /\ traitor_ids = IF st_traitor THEN {StId} ELSE {}
    /\ messages = [n \in {StId} |-> EmptyDict]
    /\ final_decision = [n \in {StId} |-> "None"]
    /\ path_history = <<>>
    /\ current_paths = <<>>
    /\ loop_i = 0
    /\ path_idx = 0
    /\ order_to_send = "None"
    /\ lt_idx = 0
    /\ decide_idx = 0
    /\ failed = 0
    /\ bpc = "off"

\* what a call on one store leaves alone in Part 2 and Part 3
bframe == <<total_nodes, num_traitors, commander_order, traitor_ids,
            final_decision, path_history, current_paths, loop_i, path_idx,
            order_to_send, lt_idx, decide_idx, failed, bpc,
            bn_final_decision, lt_decision>>

\* code/lieutenant.py receive_initial_order, lines 62-69, and the
\* _om_recursive thread it starts
LtReceiveInitialOrder(order) ==
    /\ st_calls < StMaxCalls
    /\ lt_msgs' = DictSet(lt_msgs, <<"C", StId>>, order)
    /\ st_sent' = IF StF <= 0 THEN {} ELSE LtForwards(st_traitor, order, <<>>)
    /\ st_last' = [variant |-> "lieutenant", value |-> order,
                   key |-> <<"C", StId>>, stored |-> TRUE]
    /\ st_calls' = st_calls + 1
    /\ UNCHANGED <<st_traitor, bn_messages, messages, bframe, sothers>>

\* a receive_message that stores the value of every call
LtReceiveMessage_Overwrites(value, path) ==
    /\ st_calls < StMaxCalls
    /\ lt_msgs' = DictSet(lt_msgs, path, value)
    /\ st_sent' = IF Len(path) < StF
                  THEN LtForwards(st_traitor, value, path)
                  ELSE {}
    /\ st_last' = [variant |-> "lieutenant", value |-> value, key |-> path,
                   stored |-> TRUE]
    /\ st_calls' = st_calls + 1
    /\ UNCHANGED <<st_traitor, bn_messages, messages, bframe, sothers>>

\* code/lieutenant.py receive_message, lines 72-85, and the _forward_message
\* thread it starts
LtReceiveMessage(value, path) ==
    /\ st_calls < StMaxCalls
    /\ lt_msgs' = IF HasKey(lt_msgs, path) THEN lt_msgs
                  ELSE DictSet(lt_msgs, path, value)
    /\ st_sent' = IF ~HasKey(lt_msgs, path) /\ Len(path) < StF
                  THEN LtForwards(st_traitor, value, path)
                  ELSE {}
    /\ st_last' = [variant |-> "lieutenant", value |-> value, key |-> path,
                   stored |-> ~HasKey(lt_msgs, path)]
    /\ st_calls' = st_calls + 1
    /\ UNCHANGED <<st_traitor, bn_messages, messages, bframe, sothers>>

\* byzantine_node.py receive_order, lines 22-51, and the _forward_order
\* threads it starts: a traitor replaces `order` before it stores it
BnReceiveOrder(order, path) ==
    /\ st_calls < StMaxCalls
    /\ LET o == IF st_traitor THEN Flip(order) ELSE order
       IN  /\ bn_messages' = DictAppend(bn_messages, SortedPath(path), o)
           /\ st_sent' = IF Len(path) <= 1 THEN BnForwards(o, path) ELSE {}
    /\ st_last' = [variant |-> "byzantine_node", value |-> order,
                   key |-> SortedPath(path), stored |-> TRUE]
    /\ st_calls' = st_calls + 1
    /\ UNCHANGED <<st_traitor, lt_msgs, messages, bframe, sothers>>

\* combined_assignments.py receive_message, lines 222-227
CaReceiveMessage(path, order) ==
    /\ st_calls < StMaxCalls
    /\ messages' = [messages EXCEPT ![StId] = StoreMessage(@, PathStr(path), order)]
    /\ st_sent' = {}
    /\ st_last' = [variant |-> "combined", value |-> order,
                   key |-> PathStr(path), stored |-> TRUE]
    /\ st_calls' = st_calls + 1
    /\ UNCHANGED <<st_traitor, lt_msgs, bn_messages, bframe, sothers>>

SNext ==
    \/ \E order \in Orders : LtReceiveInitialOrder(order)
    \/ \E value \in Orders : \E path \in LtPaths : LtReceiveMessage(value, path)
    \/ \E order \in Orders : \E path \in BnPaths : BnReceiveOrder(order, path)
    \/ \E order \in Orders : \E path \in BnPaths : CaReceiveMessage(path, order)

(***************************************************************************)
(* Part 7: commander.py and the lieutenants of code/lieutenant.py.  The    *)
(* commander calls receive_initial_order on one lieutenant after the       *)
(* other; a lieutenant's server runs one handler at a time and a handler   *)
(* makes no call itself, so a call is one step: the handler stores, starts *)
(* its thread and returns.  A thread makes its calls one after the other.  *)
(* A key of msgs is a tuple that starts with 'C' or with an id: c tells    *)
(* which, ids holds the ids.  A dict is the set of its items.              *)
(***************************************************************************)

\* how many lieutenants config.json lists
NetLieutenants == 3

\* the largest cfg['f']
NetF == 2

\* how many calls of a run raise at most
NetLost == 1

\* the ids of cfg['lieutenants'], and the order self.lieuts.items() gives
NetIds == 1 .. NetLieutenants

\* ('C', self.id), line 66
CKey(self) == [c |-> TRUE, ids |-> <<self>>]

\* tuple(path), line 74
PathKey(path) == [c |-> FALSE, ids |-> path]

\* len() of a key of msgs
KeyLen(key) == Len(key.ids) + (IF key.c THEN 1 ELSE 0)

\* key in self.msgs
NetHas(msgs, key) == \E e \in msgs : e.key = key

\* self.msgs[key] = value
NetSet(msgs, key, value) ==
    {e \in msgs : e.key # key} \cup {[key |-> key, value |-> value]}

\* a loop that passes over no lid of the path
NetTargets_KeepsPath(self, path) ==
    LET Test(lid) == lid # self
    IN  SelectSeq([i \in NetIds |-> i], Test)

\* lines 102-106 and 125-127: the lids the loop does not pass over
NetTargets(self, path) ==
    LET Test(lid) == lid # self /\ ~InPath(path, lid)
    IN  SelectSeq([i \in NetIds |-> i], Test)

\* a thread of _om_recursive (lines 124-131) or of _forward_message (lines
\* 101-111) with the calls it has still to make
NetThread(self, value, path) ==
    [src |-> self, value |-> value, path |-> path,
     new_path |-> Append(path, self), todo |-> NetTargets(self, path)]

\* Thread(...).start(): a thread whose loop makes no call has ended
NetStart(running, th) ==
    IF th.todo = <<>> THEN running ELSE running \cup {th}

\* a thread after one pass of its loop
NetAdvance(running, t) ==
    IF Tail(t.todo) = <<>> THEN running \ {t}
    ELSE (running \ {t}) \cup {[t EXCEPT !.todo = Tail(@)]}

\* Part 7 is not running
RIdle ==
    /\ rl_f = 0
    /\ rl_byzantine = [l \in NetIds |-> FALSE]
    /\ rl_order = "None"
    /\ rl_cmd = 0
    /\ rl_msgs = [l \in NetIds |-> {}]
    /\ rl_threads = {}
    /\ rl_sent = {}
    /\ rl_lost = 0

\* every lieutenant after __init__, commander.py about to start its loop
RInit ==
    /\ rl_f \in 0 .. NetF
    /\ rl_byzantine \in [NetIds -> BOOLEAN]
    /\ rl_order \in Orders
    /\ rl_cmd = 1
    /\ rl_msgs = [l \in NetIds |-> {}]
    /\ rl_threads = {}
    /\ rl_sent = {}
    /\ rl_lost = 0

rothers == <<lvars, bvars, dvars, nvars, ovars, svars>>

\* commander.py lines 20-25 with receive_initial_order, lines 62-69, and the
\* test of _om_recursive, line 121
CommanderSends ==
    /\ rl_cmd \in NetIds
    /\ rl_msgs' = [rl_msgs EXCEPT ![rl_cmd] = NetSet(@, CKey(rl_cmd), rl_order)]
    /\ rl_threads' = IF rl_f <= 0 THEN rl_threads
                     ELSE NetStart(rl_threads, NetThread(rl_cmd, rl_order, <<>>))
    /\ rl_cmd' = rl_cmd + 1
    /\ UNCHANGED <<rl_f, rl_byzantine, rl_order, rl_sent, rl_lost, rothers>>

\* commander.py lines 26-27: the call raised
CommanderFails ==
    /\ rl_cmd \in NetIds
    /\ rl_lost < NetLost
    /\ rl_cmd' = rl_cmd + 1
    /\ rl_lost' = rl_lost + 1
    /\ UNCHANGED <<rl_f, rl_byzantine, rl_order, rl_msgs, rl_threads, rl_sent,
                   rothers>>

\* lines 107-112 and 128-132 with receive_message, lines 72-85
ThreadSends(t) ==
    /\ t \in rl_threads
    /\ LET lid         == Head(t.todo)
           forward_val == MaybeCorrupt(rl_byzantine[t.src], t.value)
           path_t      == PathKey(t.new_path)
           fresh       == ~NetHas(rl_msgs[lid], path_t)
       IN  /\ rl_msgs' = IF fresh
                         THEN [rl_msgs EXCEPT ![lid] = NetSet(@, path_t, forward_val)]
                         ELSE rl_msgs
           /\ rl_threads' =
                  IF fresh /\ Len(t.new_path) < rl_f
                  THEN NetStart(NetAdvance(rl_threads, t),
                                NetThread(lid, forward_val, t.new_path))
                  ELSE NetAdvance(rl_threads, t)
           /\ rl_sent' = rl_sent \cup
                  {[from |-> t.src, to |-> lid, value |-> forward_val,
                    path |-> t.new_path, ok |-> TRUE]}
    /\ UNCHANGED <<rl_f, rl_byzantine, rl_order, rl_cmd, rl_lost, rothers>>

\* lines 113-114 and 133-134: the call raised
ThreadFails(t) ==
    /\ t \in rl_threads
    /\ rl_lost < NetLost
    /\ rl_threads' = NetAdvance(rl_threads, t)
    /\ rl_sent' = rl_sent \cup
           {[from |-> t.src, to |-> Head(t.todo),
             value |-> MaybeCorrupt(rl_byzantine[t.src], t.value),
             path |-> t.new_path, ok |-> FALSE]}
    /\ rl_lost' = rl_lost + 1
    /\ UNCHANGED <<rl_f, rl_byzantine, rl_order, rl_cmd, rl_msgs, rothers>>

RNext ==
    \/ CommanderSends
    \/ CommanderFails
    \/ \E t \in rl_threads : ThreadSends(t)
    \/ \E t \in rl_threads : ThreadFails(t)

\* Parts 4 to 7 are not running
XIdle == NIdle /\ OIdle /\ SIdle /\ RIdle

\* ---------------------------------------------------------- specifications

Init == LInit /\ BIdle /\ DIdle /\ XIdle

Next == LNext

\* Part 1 with calls that may raise
Spec == Init /\ [][Next]_vars

LiveInit ==
    /\ LInitWith(TotalNodes, DriverCalls, AllCalls(TotalNodes, DriverCalls))
    /\ BIdle
    /\ DIdle
    /\ XIdle

\* run_lamport_node on TotalNodes nodes under reliable delivery: no call
\* raises, every thread that can step eventually does and every call is
\* eventually served.
LiveSpec ==
    /\ LiveInit
    /\ [][LiveNext]_vars
    /\ \A n \in 0 .. (TotalNodes - 1) : WF_vars(MainStep(n))
    /\ \A n \in 0 .. (TotalNodes - 1) : WF_vars(HandlerStep(n))
    /\ WF_vars(\E t \in threads : HandlerAccept(t))

RunSpecInit == RunInit /\ BIdle /\ DIdle /\ XIdle

\* run_lamport_node on RunNodes nodes up to the RunCalls-th call, no call raising
RunSpec == RunSpecInit /\ [][LiveNext]_vars

ByzInit == LInit /\ BInit /\ DIdle /\ XIdle

ByzNext == BNext

\* Part 2: run_byzantine_simulation on every input within the bounds
ByzSpec == ByzInit /\ [][ByzNext]_vars

DecideInit == LInit /\ DInit /\ XIdle

DecideNext ==
    \/ DecideStep
    \/ Finish
    \/ BnDecides
    \/ LtDecides

\* decide of the three agreement nodes, called on the same received orders
DecideSpec == DecideInit /\ [][DecideNext]_vars

AdvSpecInit == LInit /\ AdvInit /\ DIdle /\ XIdle

\* Part 2 with any single traitor sending anything, every loyal send delivered
AdvSpec == AdvSpecInit /\ [][AdvNext]_vars

LossyInit == RunInit /\ BIdle /\ DIdle /\ XIdle

\* run_lamport_node on RunNodes nodes up to the RunCalls-th call, with calls
\* that may raise
LossySpec == LossyInit /\ [][Next]_vars

\* run_byzantine_simulation(total_nodes, 1, order) for total_nodes from 4 on
ValidityInit ==
    /\ LInit
    /\ DIdle
    /\ XIdle
    /\ total_nodes \in 4 .. ValidityNodes
    /\ num_traitors = 1
    /\ commander_order \in Orders
    /\ traitor_ids = {}
    /\ messages = <<>>
    /\ final_decision = <<>>
    /\ path_history = <<>>
    /\ current_paths = <<>>
    /\ loop_i = 0
    /\ path_idx = 0
    /\ order_to_send = "None"
    /\ lt_idx = 0
    /\ decide_idx = 0
    /\ failed = 0
    /\ bpc = "init"

\* the simulation when every server starts and every call returns
ValidityNext ==
    \/ Start
    \/ BeginPath
    \/ SendOrder
    \/ EndOM
    \/ NextRound
    \/ EndRounds
    \/ DecideStep
    \/ Finish

\* Part 2 with one traitor and reliable delivery
ValiditySpec == ValidityInit /\ [][ValidityNext]_vars

NodePyInit == LInit /\ BIdle /\ DIdle /\ NInit /\ OIdle /\ SIdle /\ RIdle

\* Part 4: code/node.py nodes, each given 'req' up to NodePyCycles times
NodePySpec == NodePyInit /\ [][NNext]_vars

CallInit == LInit /\ BIdle /\ DIdle /\ NIdle /\ OInit /\ SIdle /\ RIdle

\* Part 5: calls made one at a time on one node of each variant
CallSpec == CallInit /\ [][ONext]_vars

StoreInit == LInit /\ SInit /\ NIdle /\ OIdle /\ RIdle

\* Part 6: calls served one at a time by one lieutenant of each variant
StoreSpec == StoreInit /\ [][SNext]_vars

RelayInit == LInit /\ BIdle /\ DIdle /\ NIdle /\ OIdle /\ SIdle /\ RInit

\* Part 7: one run of commander.py; every thread that can take a step takes
\* one in the end, and every call returns or raises
RelaySpec == RelayInit /\ [][RNext]_vars /\ WF_vars(RNext)

\* ------------------------------------------------------- Part 1: claims

OwnRequest(n) == <<request_timestamp[n], n>>

InQueue(q, e) == \E i \in DOMAIN q : q[i] = e

\* C1: no two different nodes are in state HELD at the same time.
C1_MutualExclusion ==
    \A a \in Nodes : \A b \in Nodes :
        (a # b) => ~(state[a] = "HELD" /\ state[b] = "HELD")

\* node a is WANTED, its request is queued, and no queue of the system
\* holds a smaller request
SmallestWanted(a) ==
    /\ state[a] = "WANTED"
    /\ pc[a] = "wait"
    /\ \E n \in Nodes : InQueue(request_queue[n], OwnRequest(a))
    /\ \A n \in Nodes : \A i \in DOMAIN request_queue[n] :
           TupleLeq(OwnRequest(a), request_queue[n][i])

\* C4: under reliable delivery, a WANTED node whose request is the smallest
\* of all queued requests eventually reaches HELD.
C4_Liveness ==
    \A a \in 0 .. (TotalNodes - 1) : SmallestWanted(a) ~> (state[a] = "HELD")

IsSorted(q) ==
    \A i \in DOMAIN q : \A j \in DOMAIN q : (i < j) => TupleLeq(q[i], q[j])

\* no thread of node n is inside a queue update: the server thread runs no
\* call and the main thread polls, holds the critical section or is idle
QueueAtRest(n) == hpc[n] = "idle" /\ pc[n] \in {"idle", "wait", "held"}

\* C5: every node's request_queue is sorted ascending by (timestamp, id)
\* whenever the request_cs, receive_request, receive_release and release_cs
\* calls made on the node so far have completed their queue updates.
C5_QueueSorted ==
    \A n \in Nodes : QueueAtRest(n) => IsSorted(request_queue[n])

\* C6: the request a node creates after a release is strictly greater than
\* the request it released.
C6_ReRequestLarger ==
    [][\A n \in Nodes :
          (pc[n] = "stamp" /\ pc'[n] = "enqueue" /\ cycles[n] >= 2)
              => request_timestamp'[n] > request_timestamp[n]]_vars

\* C10: a node's state changes only RELEASED -> WANTED -> HELD -> RELEASED.
C10_StateCycle ==
    [][\A n \in Nodes :
          /\ (state[n] = "RELEASED") => (state'[n] \in {"RELEASED", "WANTED"})
          /\ (state[n] = "WANTED") => (state'[n] \in {"WANTED", "HELD"})
          /\ (state[n] = "HELD") => (state'[n] \in {"HELD", "RELEASED"})]_vars

\* a node went through the whole cycle and is RELEASED again
C10_Witness ==
    \E n \in Nodes : cycles[n] >= 1 /\ state[n] = "RELEASED" /\ pc[n] = "idle"


\* ------------------------------------------------------- Part 2: claims

LoyalLieutenants ==
    {n \in DOMAIN final_decision : n # CommanderId /\ n \notin traitor_ids}

C3_Run ==
    /\ bpc = "done"
    /\ total_nodes = 4
    /\ num_traitors = 1
    /\ commander_order = "ATTACK"
    /\ failed = 0

\* C3: in that run the traitor set is {3} and lieutenants 1 and 2 both
\* decide ATTACK.
C3_Scenario ==
    C3_Run => /\ traitor_ids = {3}
              /\ final_decision[1] = "ATTACK"
              /\ final_decision[2] = "ATTACK"

\* the run has finished, and the traitor had told lieutenant 2 RETREAT
C3_Witness ==
    /\ C3_Run
    /\ messages[2][PathStr(<<0, 3>>)] = <<"RETREAT">>

IsTie(values) == Count(values, "ATTACK") = Count(values, "RETREAT")

\* C7: for m > 0, when the collected values hold as many ATTACK as RETREAT
\* the decision is RETREAT.
C7_TieRetreat ==
    \A n \in DOMAIN final_decision :
        ( /\ num_traitors > 0
          /\ n # CommanderId
          /\ final_decision[n] # "None"
          /\ IsTie(AllValues(n, total_nodes, CommanderId, messages[n])) )
        => final_decision[n] = "RETREAT"

\* C8: decide on a node that is not the commander and has stored no message
\* yields RETREAT, in each of the three agreement nodes.
C8_EmptyStoreRetreat ==
    /\ \A n \in DOMAIN final_decision :
          (n # CommanderId /\ messages[n] = EmptyDict /\ decide_idx > n)
              => final_decision[n] = "RETREAT"
    /\ (bn_messages = <<>> /\ bn_final_decision # "None")
          => bn_final_decision = "RETREAT"
    /\ (lt_msgs = <<>> /\ lt_decision # "pending")
          => lt_decision = "RETREAT"

NoMessageReceived == \A n \in DOMAIN messages : messages[n] = EmptyDict

NoDecisionMade == \A n \in DOMAIN final_decision : final_decision[n] = "None"

\* C9: with total_nodes <= 3 * num_traitors the simulation returns before
\* any receive_message call and any decision; with total_nodes greater it
\* is not rejected.
C9_RejectedBeforeSend ==
    /\ (total_nodes <= 3 * num_traitors)
          => (bpc \in {"init", "rejected"} /\ NoMessageReceived /\ NoDecisionMade)
    /\ (total_nodes > 3 * num_traitors) => (bpc # "rejected")

\* the simulation was rejected at the boundary total_nodes = 3 * num_traitors
C9_Witness ==
    /\ bpc = "rejected"
    /\ num_traitors > 0
    /\ total_nodes = 3 * num_traitors

\* ------------------------------------------------- Part 1: further claims

\* C11: a node moves to HELD only from a state in which it is WANTED, holds
\* the replies of all other nodes and has its own current request at the
\* head of its queue.
C11_EntryCondition ==
    [][\A n \in Nodes :
          (state[n] # "HELD" /\ state'[n] = "HELD") =>
              /\ state[n] = "WANTED"
              /\ replies_received[n] = Nodes \ {n}
              /\ request_queue[n] # <<>>
              /\ request_queue[n][1] = OwnRequest(n)]_vars

\* C13: a node one of whose receive_request calls raised stays WANTED from
\* then on, starts no further request cycle and never calls that peer's
\* receive_request again.
C13_FailedRequestStaysWanted ==
    [][\A t \in req_failed :
          (t.method = "request") =>
              /\ state[t.src] = "WANTED"
              /\ state'[t.src] = "WANTED"
              /\ cycles'[t.src] = t.cyc
              /\ \A u \in threads' :
                     ~(u.src = t.src /\ u.method = "request" /\ u.idx = t.idx)]_vars

\* the only receive_request call of a node raised, every thread has run as
\* far as it can, and the node is polling its entry test
C13_Witness ==
    \E t \in req_failed :
        /\ t.method = "request"
        /\ state[t.src] = "WANTED"
        /\ pc[t.src] = "wait"
        /\ threads = {}
        /\ \A n \in Nodes : hpc[n] = "idle"

\* C14: no request_queue holds two entries of the same requester.
C14_OneEntryPerRequester ==
    \A n \in Nodes : \A i \in DOMAIN request_queue[n] :
        \A j \in DOMAIN request_queue[n] :
            (i # j) => request_queue[n][i][2] # request_queue[n][j][2]

\* the server thread of r has returned the reply to the request e
Replied(r, e) ==
    /\ InQueue(request_queue[r], e)
    /\ e[2] # r
    /\ ~(hpc[r] = "sort" /\ hcall[r].src = e[2] /\ hcall[r].ts = e[1])

\* C17: an entry whose receive_request call has returned stays in the
\* receiver's queue until the receiver's receive_release for its sender
\* stores the queue without it.
C17_EntryKeptUntilRelease ==
    [][\A r \in Nodes : \A i \in DOMAIN request_queue[r] :
          Replied(r, request_queue[r][i]) =>
              \/ InQueue(request_queue'[r], request_queue[r][i])
              \/ /\ hpc[r] = "store"
                 /\ hcall[r].src = request_queue[r][i][2]
                 /\ hpc'[r] = "idle"]_vars

\* C20: receive_release(sender) adds one to the clock it finds, stores the
\* queue it finds without the entries of sender and with the others in their
\* order, and changes neither state nor replies_received.
C20_ReceiveReleaseEffect ==
    [][\A r \in Nodes :
          (hpc[r] # "idle" /\ hcall[r].method = "release") =>
              /\ (hpc[r] = "tick" /\ hpc'[r] # "tick")
                     => clock'[r] = clock[r] + 1
              /\ (hpc[r] = "store" /\ hpc'[r] # "store")
                     => request_queue'[r] =
                            RemoveSender(request_queue[r], hcall[r].src)
              /\ (hpc'[r] # hpc[r])
                     => /\ state'[r] = state[r]
                        /\ replies_received'[r] = replies_received[r]]_vars

\* ------------------------------------------------------- Part 4: claims

\* C12: a node of code/node.py is in its critical section only when all
\* N - 1 peers acknowledged the receive_request call of this cycle.
C12_EntersOnlyWithAllAcks ==
    \A n \in NpIds : (np_pc[n] = "cs") => (np_ack_count[n] = NodePyNodes - 1)

\* ------------------------------------------------------- Part 5: claims

\* C18: when receive_request(ts, sender) returns, the clock is the larger of
\* ts and the clock before the call, plus one, in each variant.
C18_ReceiveRequestClock ==
    (op_last.op = "receive_request") =>
        op_node.clock = Max(op_last.clock, op_last.ts) + 1

\* C19: release_cs of combined_assignments.py on a HELD node adds one to the
\* clock, removes the node's own request, sets state to RELEASED and sends a
\* release to every other node.
C19_ReleaseCsEffect ==
    (op_last.op = "release_cs" /\ op_node.variant = "combined") =>
        /\ op_node.clock = op_last.clock + 1
        /\ \A i \in DOMAIN op_node.queue : op_node.queue[i][2] # OpId
        /\ op_node.state = "RELEASED"
        /\ op_last.sent = OpPeers

\* ------------------------------------------------------- Part 6: claims

\* C15: a value stored under a path key is the value read for that key ever
\* after, in code/lieutenant.py and in combined_assignments.py.
C15_FirstWriteWins ==
    [][/\ \A i \in DOMAIN lt_msgs :
              /\ HasKey(lt_msgs', lt_msgs[i][1])
              /\ Lookup(lt_msgs', lt_msgs[i][1]) = lt_msgs[i][2]
       /\ \A n \in DOMAIN messages : \A k \in DOMAIN messages[n] :
              FirstOrDefault(messages'[n], k) = FirstOrDefault(messages[n], k)]_vars

\* the value the last call left under its key
StoredValue ==
    IF st_last.variant = "lieutenant" THEN Lookup(lt_msgs, st_last.key)
    ELSE LET l == Lookup(bn_messages, st_last.key) IN l[Len(l)]

\* C16: a traitor stores the value it received and forwards the inverse, in
\* code/lieutenant.py and in byzantine_node.py.
C16_TraitorLiesOutwardOnly ==
    ( /\ st_traitor
      /\ st_last.variant \in {"lieutenant", "byzantine_node"}
      /\ st_last.stored )
    => /\ StoredValue = st_last.value
       /\ \A c \in st_sent : c.value = Flip(st_last.value)

\* --------------------------------------------- Part 5: claims, second group

\* C21: whatever the receiver's state and whatever (ts, sender), the value
\* receive_request returns is an affirmative one: the call is never refused
\* or deferred.
C21_AlwaysAcknowledges ==
    (op_last.op = "receive_request") => Truthy(op_last.ret)

\* a request was acknowledged by a receiver that was waiting with a smaller
\* request of its own
C21_Witness ==
    /\ op_last.op = "receive_request"
    /\ op_last.node.state = "WANTED"
    /\ TupleLeq(<<op_last.node.ts, OpId>>, <<op_last.ts, op_last.sender>>)
    /\ Truthy(op_last.ret)

\* C23: request_cs on a node that is not RELEASED changes nothing and sends
\* nothing; on a RELEASED node it adds one to the clock, queues (new clock,
\* own id), sets WANTED and leaves replies_received empty.
C23_RequestCsEffect ==
    (op_last.op = "request_cs") =>
        IF op_last.node.state # "RELEASED"
        THEN op_node = op_last.node /\ op_last.sent = {}
        ELSE /\ op_node.clock = op_last.node.clock + 1
             /\ InQueue(op_node.queue, <<op_node.clock, OpId>>)
             /\ Len(op_node.queue) = Len(op_last.node.queue) + 1
             /\ op_node.state = "WANTED"
             /\ op_node.replies = {}

\* --------------------------------------------- Part 6: claims, second group

\* C25: in code/lieutenant.py a receive_message for a path that is already
\* in msgs leaves msgs as it is and starts no forwarding, whatever its value.
C25_DuplicateRelayIgnored ==
    [][( /\ st_calls' = st_calls + 1
         /\ st_last'.variant = "lieutenant"
         /\ st_last'.key \in LtPaths
         /\ HasKey(lt_msgs, st_last'.key) )
       => (lt_msgs' = lt_msgs /\ st_sent' = {})]_vars

\* a relay arrived for a path that holds the other value
C25_Witness ==
    /\ st_last.variant = "lieutenant"
    /\ st_last.key \in LtPaths
    /\ ~st_last.stored
    /\ HasKey(lt_msgs, st_last.key)
    /\ Lookup(lt_msgs, st_last.key) # st_last.value
    /\ st_sent = {}

\* --------------------------------------------- Part 2: claims, second group

\* C26: whatever execute_om of a traitor delivers is the inverse of the
\* order it was given, for every recipient, and whatever execute_om of a
\* loyal node delivers is the order it was given.
C26_TraitorInvertsEveryValue ==
    [][( /\ bpc = "om"
         /\ lt_idx' = lt_idx + 1
         /\ messages' # messages )
       => LET r == CurrentLieutenants[lt_idx]
              got == messages'[r][PathStr(CurrentPath)]
          IN  got[Len(got)] = IF CurrentCommander \in traitor_ids
                              THEN Flip(order_to_send)
                              ELSE order_to_send]_vars

\* the first value node k stored under `path`, RETREAT when it stored none
ValueAt(k, path) ==
    IF PathStr(path) \in DOMAIN messages[k]
    THEN messages[k][PathStr(path)][1]
    ELSE "RETREAT"

\* one entry for the commander's path, then one for the path through each
\* other lieutenant, in the order of their ids
ExpectedValues(k) ==
    LET others == SelectSeq(SeqRange(total_nodes),
                            LAMBDA i : i # k /\ i # CommanderId)
    IN  <<ValueAt(k, <<CommanderId>>)>> \o
        [j \in DOMAIN others |-> ValueAt(k, <<CommanderId, others[j]>>)]

\* C28: a lieutenant that has decided holds, for m = 0, the first value
\* under the commander's path (RETREAT if none) and, for m > 0, the majority
\* of one value for the commander's path and one for each other lieutenant's
\* path, every missing one read as RETREAT.
C28_MissingPathIsRetreat ==
    \A k \in DOMAIN final_decision :
        (bpc \in {"decide", "done"} /\ k # CommanderId /\ k < decide_idx) =>
            /\ Len(ExpectedValues(k)) = total_nodes - 1
            /\ final_decision[k] =
                   IF num_traitors = 0 THEN ValueAt(k, <<CommanderId>>)
                   ELSE Majority(ExpectedValues(k))

\* a loyal lieutenant that holds ATTACK from the commander decided RETREAT
\* because two relays never reached it
C28_Witness ==
    /\ bpc = "done"
    /\ num_traitors = 1
    /\ \E k \in LoyalLieutenants :
           /\ ValueAt(k, <<CommanderId>>) = "ATTACK"
           /\ Cardinality({l \in DOMAIN final_decision :
                  /\ l # k
                  /\ l # CommanderId
                  /\ PathStr(<<CommanderId, l>>) \notin DOMAIN messages[k]}) = 2
           /\ final_decision[k] = "RETREAT"

\* C29: with one traitor, at least four nodes, the loyal commander 0 and
\* every call delivered, each loyal lieutenant decides the commander's order.
C29_Validity ==
    ( /\ bpc = "done"
      /\ num_traitors = 1
      /\ total_nodes >= 4
      /\ CommanderId \notin traitor_ids
      /\ failed = 0 )
    => \A k \in LoyalLieutenants : final_decision[k] = commander_order

\* seven nodes: lieutenant 2 holds the traitor's inverted relay and still
\* decided ATTACK, the commander's order
C29_Witness ==
    /\ bpc = "done"
    /\ total_nodes = 7
    /\ commander_order = "ATTACK"
    /\ traitor_ids = {6}
    /\ ValueAt(2, <<CommanderId, 6>>) = "RETREAT"
    /\ PathStr(<<CommanderId, 6>>) \in DOMAIN messages[2]
    /\ final_decision[2] = "ATTACK"

\* --------------------------------------------- Part 1: claims, third group

\* node n has stamped and queued a request and not yet entered for it
Outstanding(n) ==
    /\ state[n] = "WANTED"
    /\ pc[n] \in {"sort", "wait", "enter"}

\* C30: no node becomes HELD while a smaller request of another node is
\* outstanding and has not been served.
C30_EntriesFollowRequestOrder ==
    [][\A a \in Nodes : \A b \in Nodes :
          ( /\ a # b
            /\ Outstanding(a)
            /\ Outstanding(b)
            /\ TupleLeq(<<request_timestamp[a], a>>, <<request_timestamp[b], b>>) )
          => state'[b] # "HELD"]_vars

\* u is the thread of the broadcast that t belongs to
SameBroadcast(t, u) ==
    /\ u.src = t.src
    /\ u.method = t.method
    /\ u.cyc = t.cyc
    /\ u.ts = t.ts

\* C22: a broadcast starts at its first peer and, when its call to a peer
\* has returned or raised, goes on to the next peer, so that every peer is
\* attempted once whichever calls raise.
C22_FailedSendSkipsOnlyThatPeer ==
    [][/\ \A t \in threads : (t \notin threads') =>
              \A i \in Nodes : (i # t.src /\ i > t.idx) =>
                  \E u \in threads' :
                      SameBroadcast(t, u) /\ u.idx > t.idx /\ u.idx <= i
       /\ \A u \in threads' :
              (\A t \in threads : ~SameBroadcast(t, u)) =>
                  \A i \in Nodes : i # u.src => u.idx <= i]_vars

\* a request to one peer raised and a later peer of the same broadcast
\* answered
C22_Witness ==
    \E t \in req_failed : \E j \in Nodes :
        /\ t.method = "request"
        /\ j # t.src
        /\ j > t.idx
        /\ j \in replies_received[t.src]

\* C24: once the release of node t.src to node t.idx has been lost, the
\* released request stays in the queue of t.idx, and a request that t.idx
\* issued when that entry was already in its queue is never the head of the
\* queue and never takes t.idx to HELD.
C24_LostReleaseStalls ==
    [][\A t \in req_failed : (t.method = "release") =>
          \A i \in DOMAIN request_queue[t.idx] :
              LET e == request_queue[t.idx][i]
              IN  (e[2] = t.src) =>
                      /\ InQueue(request_queue'[t.idx], e)
                      /\ ( /\ InQueue(queue_at_request[t.idx], e)
                           /\ state[t.idx] = "WANTED" )
                         => /\ state'[t.idx] # "HELD"
                            /\ ~( /\ pc'[t.idx] \in {"wait", "enter"}
                                  /\ request_queue'[t.idx][1][2] = t.idx )]_vars

\* the release was lost, and the node that missed it has asked afterwards,
\* holds every reply and waits behind the released request
C24_Witness ==
    \E t \in req_failed :
        /\ t.method = "release"
        /\ state[t.idx] = "WANTED"
        /\ pc[t.idx] = "wait"
        /\ Cardinality(replies_received[t.idx]) = node_count - 1
        /\ \E i \in DOMAIN queue_at_request[t.idx] :
               /\ queue_at_request[t.idx][i][2] = t.src
               /\ InQueue(request_queue[t.idx], queue_at_request[t.idx][i])
        /\ request_queue[t.idx][1][2] = t.src

\* ------------------------------------------------------- Part 7: claims

Distinct(path) ==
    \A i \in DOMAIN path : \A j \in DOMAIN path : (i # j) => path[i] # path[j]

\* the path a call carried has distinct ids, not the receiver's, and at
\* most f of them
SentPathsBounded ==
    \A m \in rl_sent :
        /\ Distinct(m.path)
        /\ ~InPath(m.path, m.to)
        /\ Len(m.path) <= rl_f

\* the same of a key of msgs
KeyBounded(l, key) ==
    /\ Distinct(key.ids)
    /\ ~InPath(key.ids, l)
    /\ KeyLen(key) <= rl_f

\* the path the sender of m had received
Received(m) == SubSeq(m.path, 1, Len(m.path) - 1)

\* a call is made only for a path shorter than f that the sender has stored
\* (or for the commander's order), and never to the sender or into the path
ForwardsOnlyBelowF ==
    /\ \A t \in rl_threads : Len(t.path) < rl_f
    /\ \A m \in rl_sent :
           /\ Len(Received(m)) < rl_f
           /\ m.path[Len(m.path)] = m.from
           /\ m.to # m.from
           /\ ~InPath(Received(m), m.to)
           /\ IF Received(m) = <<>>
              THEN NetHas(rl_msgs[m.from], CKey(m.from))
              ELSE NetHas(rl_msgs[m.from], PathKey(Received(m)))

\* lieutenant l has called lid for the path it received, or its thread is
\* about to
Forwarded(l, ids, lid) ==
    \/ \E m \in rl_sent : m.from = l /\ m.to = lid /\ m.path = Append(ids, l)
    \/ \E t \in rl_threads : t.src = l /\ t.path = ids /\ InPath(t.todo, lid)

\* a stored path shorter than f goes to every lieutenant outside it
ForwardsToEveryOther ==
    \A l \in NetIds : \A e \in rl_msgs[l] :
        (~e.key.c /\ Len(e.key.ids) < rl_f) =>
            \A lid \in NetIds :
                (lid # l /\ ~InPath(e.key.ids, lid)) => Forwarded(l, e.key.ids, lid)

\* commander.py has ended and no thread is running
NoMessageInFlight == rl_cmd = NetLieutenants + 1 /\ rl_threads = {}

\* C27, as stated: every path sent or stored (every key of msgs) has
\* pairwise distinct ids, does not contain the receiving node and has length
\* at most f; a message is forwarded only when len(path) < f, to every
\* lieutenant that is neither the node nor in the path; and the relay
\* reaches a state with no message in flight.
C27_EveryStoredKeyBounded ==
    /\ [](/\ SentPathsBounded
          /\ \A l \in NetIds : \A e \in rl_msgs[l] : KeyBounded(l, e.key)
          /\ ForwardsOnlyBelowF
          /\ ForwardsToEveryOther)
    /\ <>NoMessageInFlight

\* C27, amended: every path sent by _om_recursive or _forward_message, and
\* every path stored by receive_message, has pairwise distinct ids, does not
\* contain the receiving node and has length at most f (the key ('C', id)
\* that receive_initial_order stores is not such a path); a message is
\* forwarded only when len(path) < f, to every lieutenant that is neither
\* the node nor in the path; and the relay reaches a state with no message
\* in flight.
C27_BoundedRelay ==
    /\ [](/\ SentPathsBounded
          /\ \A l \in NetIds : \A e \in rl_msgs[l] :
                 (~e.key.c) => KeyBounded(l, e.key)
          /\ ForwardsOnlyBelowF
          /\ ForwardsToEveryOther)
    /\ <>NoMessageInFlight

\* the relay has ended, with f > 1, and a path of length f is stored
C27_Witness ==
    /\ NoMessageInFlight
    /\ rl_f > 1
    /\ \E l \in NetIds : \E e \in rl_msgs[l] :
           /\ ~e.key.c
           /\ Len(e.key.ids) = rl_f
           /\ \E m \in rl_sent : m.to = l /\ m.path = e.key.ids /\ m.ok

\* ------------------------------------------------- Part 1: claims, last group

\* how many entries of node n's queue carry its own id
OwnEntries(n) ==
    Cardinality({i \in DOMAIN request_queue[n] : request_queue[n][i][2] = n})

\* C31: a node's request_queue holds exactly one entry with its own id while
\* its state is WANTED or HELD and none while its state is RELEASED, in every
\* state in which its main thread is outside the bookkeeping statements of
\* request_cs (lines 114-120) and release_cs (lines 149-152).
C31_OwnRequestBookkeeping ==
    \A n \in Nodes :
        (pc[n] \in {"idle", "wait", "enter", "held"}) =>
            /\ (state[n] \in {"WANTED", "HELD"}) => OwnEntries(n) = 1
            /\ (state[n] = "RELEASED") => OwnEntries(n) = 0

\* C32: no step lowers a node's clock, and the timestamp a node gives a
\* request (line 118) is larger than the timestamp of every receive_request
\* call it has returned from.
C32_ClockCondition ==
    [][\A n \in 0 .. (TotalNodes - 1) :
          /\ clock'[n] >= clock[n]
          /\ (pc[n] = "stamp" /\ pc'[n] = "enqueue") =>
                 request_timestamp'[n] > received_ts[n]]_vars

====
